---- MODULE Spec2Model ----
(***************************************************************************)
(* Model of the Hono.js serverless API: the formatting utilities, the zod  *)
(* schemas, the route handlers and the middleware pipeline of index.ts.    *)
(*                                                                         *)
(* JavaScript strings are sequences of one-character strings, JavaScript   *)
(* numbers are rationals n/d (or NaN / Infinity), and every JavaScript     *)
(* scalar is one record shape (JS value) so that absent, null, string and  *)
(* number inputs can be mixed in one set.                                  *)
(***************************************************************************)
EXTENDS Integers, Sequences, FiniteSets, TLC

VARIABLES
    mockUsers,     \* the process-wide user list (get.ts:107-113)
    mockCourses,   \* the process-wide course list (get.ts:19-50)
    env,           \* environment configuration read at process start
    clock,         \* reading of Date.now() / new Date()
    req,           \* the request being answered
    res,           \* the response: status and JSON body
    steps,         \* what the pipeline did for this request, in order
    call,          \* a direct call of a utility function: name and arguments
    ret,           \* the value the call returned ("pending" before it ran)
    logger,        \* Logger.instance: logLevel and config (logger.ts:14-16)
    console,       \* what the last logger call wrote to the console
    versionFile,   \* $PROJECT_ROOT/.deployment-version: its text, if it exists
    run,           \* the run of the deployment script: position and locals
    inflight       \* the contexts of the requests being served concurrently

vars ==
    <<mockUsers, mockCourses, env, clock, req, res, steps, call, ret, logger, console,
      versionFile, run, inflight>>

-----------------------------------------------------------------------------
(* Bounds of the model *)

\* longest path-parameter / query string drawn from the alphabet
MaxStrLen == 3
\* longest query string drawn from the alphabet for a list request
MaxQueryLen == 2
\* most whitespace characters put before or after a body string
MaxPad == 1
\* last clock reading
MaxClock == 1
\* deployment runs in one behaviour
MaxRuns == 3
\* requests served at the same time
MaxInFlight == 2
\* largest total handed to calculatePagination
MaxTotal == 25

-----------------------------------------------------------------------------
(* JavaScript values *)

Max(a, b) == IF a >= b THEN a ELSE b
Min(a, b) == IF a <= b THEN a ELSE b
Abs(a) == IF a < 0 THEN -a ELSE a

RECURSIVE GCD(_, _)
GCD(a, b) == IF b = 0 THEN a ELSE GCD(b, a % b)

RECURSIVE Pow10(_)
Pow10(m) == IF m = 0 THEN 1 ELSE 10 * Pow10(m - 1)

\* one record shape for every JavaScript scalar
\*   t: typeof-like tag; s: the characters of a string;
\*   k: "fin" | "nan" | "inf" for numbers; n/d: the rational value
JSV(t, s, k, n, d) == [t |-> t, s |-> s, k |-> k, n |-> n, d |-> d]
Undefined == JSV("undefined", <<>>, "fin", 0, 1)
Null == JSV("null", <<>>, "fin", 0, 1)
Str(s) == JSV("string", s, "fin", 0, 1)
Rat(n, d) ==
    LET g == GCD(Abs(n), d)
    IN  JSV("number", <<>>, "fin", n \div g, d \div g)
Num(n) == JSV("number", <<>>, "fin", n, 1)
NaN == JSV("number", <<>>, "nan", 0, 1)
Infinity == JSV("number", <<>>, "inf", 1, 1)
JTrue == JSV("boolean", <<>>, "fin", 1, 1)
JFalse == JSV("boolean", <<>>, "fin", 0, 1)
\* a string the program only passes along or compares as a whole
\* (messages, level names, the fields of the mock records)
Text(m) == [t |-> "string", text |-> m]
\* new Date(now).toISOString()
IsoString(now) == [t |-> "string", iso |-> now]

IsString(v) == v.t = "string"
IsNumber(v) == v.t = "number"
IsNaN(v) == v.t = "number" /\ v.k = "nan"
IsFinite(v) == v.t = "number" /\ v.k = "fin"
\* Number.isInteger
IsInteger(v) == IsFinite(v) /\ v.d = 1

\* ToBoolean: what `!x`, `x || y`, `x && y`, `x ? a : b` test
Truthy(v) ==
    CASE v.t = "undefined" -> FALSE
      [] v.t = "null" -> FALSE
      [] v.t = "string" ->
            IF "text" \in DOMAIN v THEN v.text # ""
            ELSE IF "iso" \in DOMAIN v THEN TRUE
            ELSE Len(v.s) > 0
      [] v.t = "number" -> v.k = "inf" \/ (v.k = "fin" /\ v.n # 0)
      [] OTHER -> v.n # 0

\* x || y
OrElse(x, y) == IF Truthy(x) THEN x ELSE y

\* a < b on numbers; any comparison with NaN is false
NumLt(a, b) ==
    /\ ~IsNaN(a) /\ ~IsNaN(b)
    /\ IF a.k = "inf" \/ b.k = "inf"
       THEN (b.k = "inf" /\ b.n > 0 /\ ~(a.k = "inf" /\ a.n > 0))
            \/ (a.k = "inf" /\ a.n < 0 /\ ~(b.k = "inf" /\ b.n < 0))
       ELSE a.n * b.d < b.n * a.d
NumGt(a, b) == NumLt(b, a)

NumAdd(a, b) ==
    IF ~IsFinite(a) \/ ~IsFinite(b) THEN NaN
    ELSE Rat(a.n * b.d + b.n * a.d, a.d * b.d)
NumSub(a, b) ==
    IF ~IsFinite(a) \/ ~IsFinite(b) THEN NaN
    ELSE Rat(a.n * b.d - b.n * a.d, a.d * b.d)
NumMul(a, b) ==
    IF ~IsFinite(a) \/ ~IsFinite(b) THEN NaN
    ELSE Rat(a.n * b.n, a.d * b.d)
\* a / b: x/0 is +-Infinity, 0/0 is NaN
NumDiv(a, b) ==
    IF ~IsFinite(a) \/ ~IsFinite(b) THEN NaN
    ELSE IF b.n = 0
         THEN (IF a.n = 0 THEN NaN
               ELSE JSV("number", <<>>, "inf", IF a.n > 0 THEN 1 ELSE -1, 1))
    ELSE IF b.n > 0 THEN Rat(a.n * b.d, a.d * b.n)
    ELSE Rat(-(a.n * b.d), a.d * (-b.n))

\* Math.ceil
MathCeil(a) ==
    IF ~IsFinite(a) THEN a
    ELSE Num(-((-a.n) \div a.d))

\* ToIntegerOrInfinity for finite arguments: NaN -> 0, truncate toward zero
ToInteger(a) ==
    IF ~IsFinite(a) THEN 0
    ELSE IF a.n >= 0 THEN a.n \div a.d ELSE -((-a.n) \div a.d)

\* a slice that also takes the element at index end
SliceThroughEnd(arr, start, end) ==
    LET len == Len(arr)
        rs == ToInteger(start)
        re == ToInteger(end)
        k == IF rs < 0 THEN Max(len + rs, 0) ELSE Min(rs, len)
        f == IF re < 0 THEN Max(len + re + 1, 0) ELSE Min(re + 1, len)
    IN  IF f <= k THEN <<>> ELSE SubSeq(arr, k + 1, f)
\* Array.prototype.slice(start, end)
Slice(arr, start, end) ==
    LET len == Len(arr)
        rs == ToInteger(start)
        re == ToInteger(end)
        k == IF rs < 0 THEN Max(len + rs, 0) ELSE Min(rs, len)
        f == IF re < 0 THEN Max(len + re, 0) ELSE Min(re, len)
    IN  IF f <= k THEN <<>> ELSE SubSeq(arr, k + 1, f)

-----------------------------------------------------------------------------
(* JavaScript strings *)

Digits == {"0", "1", "2", "3", "4", "5", "6", "7", "8", "9"}
DigitVal == [c \in Digits |->
    CASE c = "0" -> 0 [] c = "1" -> 1 [] c = "2" -> 2 [] c = "3" -> 3
      [] c = "4" -> 4 [] c = "5" -> 5 [] c = "6" -> 6 [] c = "7" -> 7
      [] c = "8" -> 8 [] c = "9" -> 9]
WhiteSpace == {" ", "\t"}

\* the strings over alphabet A of length at most m
StringsUpTo(A, m) == UNION {[1..k -> A] : k \in 0..m}

\* m copies of character c
Rep(c, m) == [i \in 1..m |-> c]

RECURSIVE TrimStart(_)
TrimStart(s) ==
    IF s # <<>> /\ Head(s) \in WhiteSpace THEN TrimStart(Tail(s)) ELSE s
RECURSIVE TrimEnd(_)
TrimEnd(s) ==
    IF s # <<>> /\ s[Len(s)] \in WhiteSpace
    THEN TrimEnd(SubSeq(s, 1, Len(s) - 1)) ELSE s
\* String.prototype.trim
Trim(s) == TrimEnd(TrimStart(s))

\* the longest prefix of s made of digits
RECURSIVE DigitPrefix(_)
DigitPrefix(s) ==
    IF s # <<>> /\ Head(s) \in Digits
    THEN <<Head(s)>> \o DigitPrefix(Tail(s)) ELSE <<>>

\* the value of a string of decimal digits
RECURSIVE DecimalValue(_)
DecimalValue(s) ==
    IF s = <<>> THEN 0
    ELSE 10 * DecimalValue(SubSeq(s, 1, Len(s) - 1)) + DigitVal[s[Len(s)]]

\* the decimal digits of a natural number
RECURSIVE ToDecimal(_)
ToDecimal(m) ==
    LET last == CHOOSE c \in Digits : DigitVal[c] = m % 10
    IN  IF m < 10 THEN <<last>> ELSE ToDecimal(m \div 10) \o <<last>>

\* String.prototype.toLowerCase, on the letters the inputs use
LowerOf(c) ==
    CASE c = "A" -> "a" [] c = "B" -> "b" [] c = "K" -> "k" [] c = "M" -> "m"
      [] OTHER -> c
ToLowerCase(s) == [i \in 1..Len(s) |-> LowerOf(s[i])]

AllDigits(s) == \A i \in 1..Len(s) : s[i] \in Digits

\* /^\d+$/.test(s)
MatchesDigitsOnly(s) == Len(s) >= 1 /\ AllDigits(s)

\* Number.parseInt(s, 10): skip leading white space, read an optional sign,
\* then the longest run of digits; NaN when there is none
parseInt(s) ==
    LET t == TrimStart(s)
        neg == t # <<>> /\ Head(t) = "-"
        u == IF t # <<>> /\ Head(t) \in {"+", "-"} THEN Tail(t) ELSE t
        z == DigitPrefix(u)
    IN  IF z = <<>> THEN NaN
        ELSE Num((IF neg THEN -1 ELSE 1) * DecimalValue(z))

\* Number(s) (what zod's .transform(Number) applies to a string): trims
\* white space, "" is 0, then an optional sign and a decimal literal
\* digits[.digits] or .digits; anything else is NaN.  Exponents, hex/octal/
\* binary prefixes and "Infinity" need the letters e, x, o, b, I, which the
\* input alphabets leave out.
ToNumber(s) ==
    LET t == Trim(s)
        neg == t # <<>> /\ Head(t) = "-"
        u == IF t # <<>> /\ Head(t) \in {"+", "-"} THEN Tail(t) ELSE t
        ip == DigitPrefix(u)
        rest == SubSeq(u, Len(ip) + 1, Len(u))
        hasDot == rest # <<>> /\ Head(rest) = "."
        fp == IF hasDot THEN Tail(rest) ELSE <<>>
        sign == IF neg THEN -1 ELSE 1
    IN  IF t = <<>> THEN Num(0)
        ELSE IF u = <<>> THEN NaN
        ELSE IF ~hasDot
             THEN (IF rest = <<>> /\ ip # <<>> THEN Num(sign * DecimalValue(ip)) ELSE NaN)
        ELSE IF ~AllDigits(fp) \/ (ip = <<>> /\ fp = <<>>) THEN NaN
        ELSE Rat(sign * (DecimalValue(ip) * Pow10(Len(fp)) + DecimalValue(fp)),
                 Pow10(Len(fp)))

-----------------------------------------------------------------------------
(* utils/formatters *)

\* the characters of '1' and '10', the defaults of validatePagination
DefaultPage == <<"1">>
DefaultLimit == <<"1", "0">>
MaxLimit == 100

Thrown(msg) == [ok |-> FALSE, page |-> NaN, limit |-> NaN, error |-> msg]

\* validatePagination(page?, limit?): the parsed pair, or the thrown Error
validatePagination(page, limit) ==
    LET parsedPage == parseInt(OrElse(page, Str(DefaultPage)).s)
        parsedLimit == parseInt(OrElse(limit, Str(DefaultLimit)).s)
    IN  IF IsNaN(parsedPage) \/ NumLt(parsedPage, Num(1))
        THEN Thrown("Page must be a positive integer")
        ELSE IF IsNaN(parsedLimit) \/ NumLt(parsedLimit, Num(1))
                \/ NumGt(parsedLimit, Num(MaxLimit))
        THEN Thrown("Limit must be between 1 and 100")
        ELSE [ok |-> TRUE, page |-> parsedPage, limit |-> parsedLimit, error |-> ""]

\* a page count that rounds down
calculatePaginationFloor(page, limit, total) ==
    [page |-> page, limit |-> limit, total |-> total,
     totalPages |-> Num(ToInteger(NumDiv(total, limit)))]
\* calculatePagination(page, limit, total)
calculatePagination(page, limit, total) ==
    [page |-> page, limit |-> limit, total |-> total,
     totalPages |-> MathCeil(NumDiv(total, limit))]

\* validateEmail(email): /^[^\s@]+@[^\s@]+\.[^\s@]+$/.test(email)
NoSpaceNoAt(s) == \A i \in 1..Len(s) : s[i] \notin WhiteSpace /\ s[i] # "@"
validateEmail(email) ==
    /\ IsString(email)
    /\ \E i \in 1..Len(email.s) : \E j \in (i + 1)..Len(email.s) :
          /\ email.s[i] = "@" /\ email.s[j] = "."
          /\ i > 1 /\ j > i + 1 /\ j < Len(email.s)
          /\ NoSpaceNoAt(SubSeq(email.s, 1, i - 1))
          /\ NoSpaceNoAt(SubSeq(email.s, i + 1, j - 1))
          /\ NoSpaceNoAt(SubSeq(email.s, j + 1, Len(email.s)))

\* name.length: the length of a string, undefined for other values
HasLength(v) == IsString(v)
Length(v) == Len(v.s)

NameMin == 2
NameMax == 100
\* validateName(name): name.length >= 2 && name.length <= 100
validateName(name) ==
    HasLength(name) /\ Length(name) >= NameMin /\ Length(name) <= NameMax

\* sanitizeString(input): input.trim()
sanitizeString(input) == Str(Trim(input.s))

\* a response that keeps only the success flag next to the timestamp
formatResponseBare(data, now) ==
    [key \in (DOMAIN data \cap {"success"}) \cup {"timestamp"} |->
        IF key = "timestamp" THEN IsoString(now) ELSE data[key]]
\* formatResponse(data): { ...data, timestamp: new Date().toISOString() }
formatResponse(data, now) ==
    [key \in DOMAIN data \cup {"timestamp"} |->
        IF key = "timestamp" THEN IsoString(now) ELSE data[key]]

\* generateId(): Math.floor(Math.random() * 10000); the values drawn here
IdRange == 10000
GeneratedIds == {0, 3, IdRange - 1}

\* parseRequestSize(sizeStr): /^(\d+)(mb|kb|b)?$/i, then the unit's factor
KiB == 1024
\* a size parser whose units match in lower case only
parseRequestSizeCaseSensitive(sizeStr) ==
    LET digits == DigitPrefix(sizeStr)
        unit == SubSeq(sizeStr, Len(digits) + 1, Len(sizeStr))
        value == DecimalValue(digits)
    IN  IF digits = <<>> \/ unit \notin {<<>>, <<"b">>, <<"k", "b">>, <<"m", "b">>}
        THEN [ok |-> FALSE, bytes |-> 0, error |-> "Invalid request size format"]
        ELSE [ok |-> TRUE, error |-> "",
              bytes |-> CASE unit = <<"m", "b">> -> value * KiB * KiB
                          [] unit = <<"k", "b">> -> value * KiB
                          [] OTHER -> value]
parseRequestSize(sizeStr) ==
    LET digits == DigitPrefix(sizeStr)
        unit == ToLowerCase(SubSeq(sizeStr, Len(digits) + 1, Len(sizeStr)))
        value == DecimalValue(digits)
    IN  IF digits = <<>> \/ unit \notin {<<>>, <<"b">>, <<"k", "b">>, <<"m", "b">>}
        THEN [ok |-> FALSE, bytes |-> 0, error |-> "Invalid request size format"]
        ELSE [ok |-> TRUE, error |-> "",
              bytes |-> CASE unit = <<"m", "b">> -> value * KiB * KiB
                          [] unit = <<"k", "b">> -> value * KiB
                          [] OTHER -> value]

-----------------------------------------------------------------------------
(* schema/course: the zod schemas *)

Levels == {"beginner", "intermediate", "advanced"}

Issue(path, message) == [path |-> path, message |-> message]
Parsed(issues, value) == [issues |-> issues, value |-> value]

\* z.string().min(lo, loMsg).max(hi, hiMsg).trim(): the checks run in the
\* order they were chained, so both length checks see the untrimmed input
zStringMinMaxTrim(v, path, lo, loMsg, hi, hiMsg) ==
    IF ~IsString(v) \/ "s" \notin DOMAIN v
    THEN Parsed(<<Issue(path, IF v.t = "undefined" THEN "Required"
                              ELSE "Expected string")>>, v)
    ELSE Parsed((IF Len(v.s) < lo THEN <<Issue(path, loMsg)>> ELSE <<>>)
                \o (IF Len(v.s) > hi THEN <<Issue(path, hiMsg)>> ELSE <<>>),
                Str(Trim(v.s)))

\* z.number().int(intMsg).min(lo, loMsg).max(hi, hiMsg)
zNumberIntMinMax(v, path, intMsg, lo, loMsg, hi, hiMsg) ==
    IF ~IsFinite(v)
    THEN Parsed(<<Issue(path, IF v.t = "undefined" THEN "Required"
                              ELSE "Expected number")>>, v)
    ELSE Parsed((IF ~IsInteger(v) THEN <<Issue(path, intMsg)>> ELSE <<>>)
                \o (IF NumLt(v, Num(lo)) THEN <<Issue(path, loMsg)>> ELSE <<>>)
                \o (IF NumGt(v, Num(hi)) THEN <<Issue(path, hiMsg)>> ELSE <<>>),
                v)

\* z.enum(['beginner', 'intermediate', 'advanced'], { errorMap })
zEnumLevel(v, path, message) ==
    IF IsString(v) /\ "text" \in DOMAIN v /\ v.text \in Levels
    THEN Parsed(<<>>, v)
    ELSE Parsed(<<Issue(path, message)>>, v)

\* schema.optional(): undefined passes, anything else goes to the schema
zOptional(v, parsed) == IF v.t = "undefined" THEN Parsed(<<>>, v) ELSE parsed

TitleMin == 3
TitleMax == 100
DescriptionMin == 10
DescriptionMax == 500
InstructorMin == 2
InstructorMax == 50
DurationMin == 1
DurationMax == 200

zTitle(v) ==
    zStringMinMaxTrim(v, "title", TitleMin, "Title must be at least 3 characters",
                      TitleMax, "Title must not exceed 100 characters")
zDescription(v) ==
    zStringMinMaxTrim(v, "description",
                      DescriptionMin, "Description must be at least 10 characters",
                      DescriptionMax, "Description must not exceed 500 characters")
zInstructor(v) ==
    zStringMinMaxTrim(v, "instructor",
                      InstructorMin, "Instructor name must be at least 2 characters",
                      InstructorMax, "Instructor name must not exceed 50 characters")
zDuration(v) ==
    zNumberIntMinMax(v, "duration", "Duration must be a whole number",
                     DurationMin, "Duration must be at least 1 hour",
                     DurationMax, "Duration must not exceed 200 hours")
zLevel(v) == zEnumLevel(v, "level", "Level must be beginner, intermediate, or advanced")

\* the result of schema.safeParse for an object schema of the five fields
ObjectResult(kind, t, d, i, u, l) ==
    IF kind # "object"
    THEN [success |-> FALSE, issues |-> <<Issue("", "Expected object")>>,
          data |-> [title |-> Undefined, description |-> Undefined,
                    instructor |-> Undefined, duration |-> Undefined,
                    level |-> Undefined]]
    ELSE [success |-> t.issues \o d.issues \o i.issues \o u.issues \o l.issues = <<>>,
          issues |-> t.issues \o d.issues \o i.issues \o u.issues \o l.issues,
          data |-> [title |-> t.value, description |-> d.value,
                    instructor |-> i.value, duration |-> u.value,
                    level |-> l.value]]

\* createCourseBodySchema.safeParse(body)
createCourseBodySchema(body) ==
    ObjectResult(body.kind, zTitle(body.title), zDescription(body.description),
                 zInstructor(body.instructor), zDuration(body.duration),
                 zLevel(body.level))

\* updateCourseBodySchema.safeParse(body)
updateCourseBodySchema(body) ==
    ObjectResult(body.kind,
                 zOptional(body.title, zTitle(body.title)),
                 zOptional(body.description, zDescription(body.description)),
                 zOptional(body.instructor, zInstructor(body.instructor)),
                 zOptional(body.duration, zDuration(body.duration)),
                 zOptional(body.level, zLevel(body.level)))

\* z.string().regex(/^\d+$/, msg).transform(Number): the transform runs only
\* when the string passed the regex
zIdParam(id) ==
    IF MatchesDigitsOnly(id.s)
    THEN [success |-> TRUE, issues |-> <<>>, id |-> ToNumber(id.s)]
    ELSE [success |-> FALSE, issues |-> <<Issue("id", "ID must be a valid number")>>,
          id |-> NaN]
\* updateCourseParamsSchema.safeParse(c.req.param())
updateCourseParamsSchema(id) == zIdParam(id)
\* getCourseByIdParamsSchema.safeParse(c.req.param())
getCourseByIdParamsSchema(id) == zIdParam(id)

\* z.string().optional().default(dflt).transform(Number)
zNumericQuery(v, dflt) == ToNumber(IF v.t = "undefined" THEN dflt ELSE v.s)

\* getCoursesQuerySchema.safeParse(c.req.query())
getCoursesQuerySchema(page, limit, level) ==
    LET l == zOptional(level, zEnumLevel(level, "level", "Invalid enum value"))
    IN  [success |-> l.issues = <<>>, issues |-> l.issues,
         page |-> zNumericQuery(page, DefaultPage),
         limit |-> zNumericQuery(limit, DefaultLimit),
         level |-> l.value]

\* zValidator without a hook answers a failed parse with c.json(result, 400):
\* the body is { success: false, error: <the ZodError object> }
zValidatorRejection(issues, did) ==
    [status |-> 400,
     body |-> [success |-> JFalse,
               error |-> [t |-> "object", name |-> "ZodError", issues |-> issues]],
     steps |-> did]

-----------------------------------------------------------------------------
(* the mock resource lists and the environment *)

User(id, name, email, created) ==
    [id |-> Num(id), name |-> Text(name), email |-> Text(email),
     created |-> Text(created)]
MockUsers ==
    << User(1, "John Doe", "john@example.com", "2024-01-15"),
       User(2, "Jane Smith", "jane@example.com", "2024-02-20"),
       User(3, "Bob Johnson", "bob@example.com", "2024-03-10"),
       User(4, "Alice Brown", "alice@example.com", "2024-04-05"),
       User(5, "Charlie Wilson", "charlie@example.com", "2024-05-12") >>

Course(id, title, description, instructor, duration, level, created, updated) ==
    [id |-> Num(id), title |-> Text(title), description |-> Text(description),
     instructor |-> Text(instructor), duration |-> Num(duration),
     level |-> Text(level), created |-> Text(created), updated |-> Text(updated)]
MockCourses ==
    << Course(1, "Introduction to TypeScript",
              "Learn the basics of TypeScript programming", "John Smith",
              40, "beginner", "2024-01-10", "2024-01-15"),
       Course(2, "Advanced Node.js",
              "Master advanced Node.js concepts and patterns", "Jane Doe",
              60, "advanced", "2024-02-01", "2024-02-05"),
       Course(3, "React Fundamentals",
              "Build modern web applications with React", "Bob Wilson",
              50, "intermediate", "2024-03-01", "2024-03-10") >>

\* the two deployed configurations: NODE_ENV and MAX_REQUEST_SIZE
Environments ==
    { [NODE_ENV |-> "production", LOG_LEVEL |-> "info",
       MAX_REQUEST_SIZE |-> <<"5", "m", "b">>],
      [NODE_ENV |-> "development", LOG_LEVEL |-> "debug",
       MAX_REQUEST_SIZE |-> <<"1", "0", "m", "b">>] }
isDevelopment == env.NODE_ENV = "development"

\* no request context
NoneInFlight == <<>>

\* no .deployment-version file; no deployment run under way
NoFile == [exists |-> FALSE, text |-> <<>>]
NoRun ==
    [pc |-> "idle", runs |-> 0, before |-> NoFile, current_version |-> <<>>,
     new_version |-> <<>>, exit_code |-> 0, failed_at |-> "none"]

-----------------------------------------------------------------------------
(* utils/logs/logger *)

\* const levels: LogLevel[] = ["debug", "info", "warn", "error"]
LogLevels == <<"debug", "info", "warn", "error">>
\* levels.indexOf(level): -1 when it is not a level
IndexOf(level) ==
    IF \E k \in 1..Len(LogLevels) : LogLevels[k] = level
    THEN (CHOOSE k \in 1..Len(LogLevels) : LogLevels[k] = level) - 1
    ELSE -1

\* new Logger(): the threshold and the rendering flags read from env; the
\* config object has no other key yet
NewLogger(e) ==
    [logLevel |-> e.LOG_LEVEL,
     config |-> [prettyPrint |-> e.NODE_ENV = "development",
                 colors |-> e.NODE_ENV = "development",
                 logLevel |-> "unset"]]

\* metadata values: strings, numbers, undefined, the template string
\* `${num}ms`, and nested objects; an object is its entries in key order
MetaValue(t, text, num, fields) == [t |-> t, text |-> text, num |-> num, fields |-> fields]
MetaString(text) == MetaValue("string", text, 0, <<>>)
MetaNumber(n) == MetaValue("number", "", n, <<>>)
MetaUndefined == MetaValue("undefined", "", 0, <<>>)
MetaMs(n) == MetaValue("string", "ms", n, <<>>)
MetaObject(fields) == MetaValue("object", "", 0, fields)
Entry(key, value) == [key |-> key, value |-> value]

\* { ...obj, key: value }: an existing key keeps its place, a new one is last
Assign(obj, key, value) ==
    IF \E k \in 1..Len(obj) : obj[k].key = key
    THEN [k \in 1..Len(obj) |-> IF obj[k].key = key THEN Entry(key, value) ELSE obj[k]]
    ELSE Append(obj, Entry(key, value))
\* { ...a, ...b }
RECURSIVE Spread(_, _)
Spread(a, b) ==
    IF b = <<>> THEN a
    ELSE Spread(Assign(a, Head(b).key, Head(b).value), Tail(b))

\* a piece of formatted text: its ANSI colour ("" for none), what it is, and
\* its characters (text) or number (num)
Piece(ansi, kind, text, num) == [ansi |-> ansi, kind |-> kind, text |-> text, num |-> num]

\* colorize(text, color)
colorize(cfg, piece, color) ==
    IF ~cfg.colors THEN piece ELSE [piece EXCEPT !.ansi = color]

\* the characters a piece stands for: its text, between its colour code and
\* the reset code when it was colorized
Esc(code) == [esc |-> code]
Plain(piece) == [kind |-> piece.kind, text |-> piece.text, num |-> piece.num]
\* a colorize that leaves the colour on
RenderedUnclosed(piece) ==
    IF piece.ansi = "" THEN <<Plain(piece)>>
    ELSE <<Esc(piece.ansi), Plain(piece)>>
\* `${color}${text}${this.colors.reset}`
Rendered(piece) ==
    IF piece.ansi = "" THEN <<Plain(piece)>>
    ELSE <<Esc(piece.ansi), Plain(piece), Esc("reset")>>
RECURSIVE RenderedAll(_)
RenderedAll(pieces) ==
    IF pieces = <<>> THEN <<>>
    ELSE Rendered(Head(pieces)) \o RenderedAll(Tail(pieces))

\* levelColors
levelColors(level) ==
    CASE level = "debug" -> "gray" [] level = "info" -> "blue"
      [] level = "warn" -> "yellow" [] level = "error" -> "red"

\* formatTimestamp()
formatTimestamp(cfg, now) ==
    IF cfg.prettyPrint
    THEN colorize(cfg, Piece("", "timestamp", "", now), "dim")
    ELSE Piece("", "timestamp", "", now)

\* level.toUpperCase().padEnd(5) and level.toUpperCase(), in brackets
PaddedLevel(level) ==
    CASE level = "debug" -> "[DEBUG]" [] level = "info" -> "[INFO ]"
      [] level = "warn" -> "[WARN ]" [] level = "error" -> "[ERROR]"
UpperLevel(level) ==
    CASE level = "debug" -> "[DEBUG]" [] level = "info" -> "[INFO]"
      [] level = "warn" -> "[WARN]" [] level = "error" -> "[ERROR]"

\* formatLevel(level)
formatLevel(cfg, level) ==
    IF cfg.prettyPrint /\ cfg.colors
    THEN colorize(cfg, Piece("", "level", PaddedLevel(level), 0), levelColors(level))
    ELSE Piece("", "level", PaddedLevel(level), 0)

\* String(value) of a scalar, or the quoted yellow string when colours are on
ValuePiece(cfg, value) ==
    IF cfg.colors /\ value.t = "string"
    THEN colorize(cfg, Piece("", "quoted", value.text, value.num), "yellow")
    ELSE Piece("", "value",
               IF value.t = "undefined" THEN "undefined" ELSE value.text, value.num)

\* prettyPrintObject(obj, indent): one line per key, nested objects below
\* their key
RECURSIVE prettyPrintObject(_, _)
prettyPrintObject(cfg, obj) ==
    IF obj = <<>> THEN <<>>
    ELSE LET key == Head(obj).key
             value == Head(obj).value
             keyFormatted == IF cfg.colors
                             THEN colorize(cfg, Piece("", "key", key, 0), "green")
                             ELSE Piece("", "key", key, 0)
         IN  (IF value.t = "object"
              THEN <<keyFormatted>> \o prettyPrintObject(cfg, value.fields)
              ELSE <<keyFormatted, ValuePiece(cfg, value)>>)
             \o prettyPrintObject(cfg, Tail(obj))

\* JSON.stringify(obj): keys whose value is undefined are left out
RECURSIVE Stringify(_)
Stringify(obj) ==
    IF obj = <<>> THEN <<>>
    ELSE LET key == Head(obj).key
             value == Head(obj).value
         IN  (IF value.t = "undefined" THEN <<>>
              ELSE IF value.t = "object"
              THEN <<Piece("", "key", key, 0)>> \o Stringify(value.fields)
              ELSE <<Piece("", "key", key, 0), Piece("", "value", value.text, value.num)>>)
             \o Stringify(Tail(obj))

\* formatMessage(level, message, meta): message is the pieces of the message
\* text, meta the entries of the metadata object (none when it is absent)
formatMessage(cfg, level, message, meta, now) ==
    IF cfg.prettyPrint
    THEN <<formatTimestamp(cfg, now), formatLevel(cfg, level)>> \o message
         \o (IF Len(meta) > 0
             THEN <<IF cfg.colors
                    THEN colorize(cfg, Piece("", "header", "Metadata:", 0), "cyan")
                    ELSE Piece("", "header", "Metadata:", 0)>>
                  \o prettyPrintObject(cfg, meta)
             ELSE <<>>)
    ELSE <<Piece("", "timestamp", "", now), Piece("", "level", UpperLevel(level), 0)>>
         \o message
         \o (IF Len(meta) > 0
             THEN <<Piece("", "json", "", 0)>> \o Stringify(meta)
             ELSE <<>>)


\* console.debug and console.info write to stdout, console.warn and
\* console.error to stderr
ConsoleStreamAllOut(method) == "stdout"
ConsoleStream(method) ==
    IF method \in {"debug", "info"} THEN "stdout" ELSE "stderr"
Write(method, text) == [method |-> method, stream |-> ConsoleStream(method), text |-> text]

\* a threshold test that also suppresses the threshold level itself
shouldLogAbove(lg, level) == IndexOf(level) > IndexOf(lg.logLevel)
\* shouldLog(level)
shouldLog(lg, level) == IndexOf(level) >= IndexOf(lg.logLevel)

\* the pieces of a message text, with the emoji prefix of pretty printing
Message(cfg, emoji, text, num) ==
    (IF cfg.prettyPrint /\ emoji # "" THEN <<Piece("", "emoji", emoji, 0)>> ELSE <<>>)
    \o <<Piece("", "message", text, num)>>

\* debug(message, meta), info(message, meta), warn(message, meta): the
\* console writes the call makes
debug(lg, message, meta, now) ==
    IF shouldLog(lg, "debug")
    THEN <<Write("debug", formatMessage(lg.config, "debug", message, meta, now))>>
    ELSE <<>>
info(lg, message, meta, now) ==
    IF shouldLog(lg, "info")
    THEN <<Write("info", formatMessage(lg.config, "info", message, meta, now))>>
    ELSE <<>>
warn(lg, message, meta, now) ==
    IF shouldLog(lg, "warn")
    THEN <<Write("warn", formatMessage(lg.config, "warn", message, meta, now))>>
    ELSE <<>>

\* the error argument: none, an Error with name, message and stack, or
\* another truthy value
NoError == [kind |-> "none", name |-> "", message |-> "", stack |-> ""]
ErrorObject(name, message, stack) ==
    [kind |-> "Error", name |-> name, message |-> message, stack |-> stack]
OtherError(text) == [kind |-> "other", name |-> "", message |-> text, stack |-> ""]

\* error(message, error, meta)
error(lg, e, message, err, meta, now) ==
    LET errorMeta ==
            IF err.kind = "Error"
            THEN Assign(meta, "error",
                        MetaObject(<<Entry("name", MetaString(err.name)),
                                     Entry("message", MetaString(err.message)),
                                     Entry("stack",
                                           IF e.NODE_ENV = "development"
                                           THEN MetaString(err.stack)
                                           ELSE MetaUndefined)>>))
            ELSE IF err.kind = "other"
            THEN Assign(meta, "error", MetaString(err.message))
            ELSE meta
    IN  IF shouldLog(lg, "error")
        THEN <<Write("error", formatMessage(lg.config, "error", message, errorMeta, now))>>
        ELSE <<>>

\* request(method, path, statusCode, duration)
request(lg, method, path, statusCode, duration, now) ==
    LET meta == <<Entry("method", MetaString(method)),
                  Entry("path", MetaString(path)),
                  Entry("statusCode", MetaNumber(statusCode)),
                  Entry("duration", IF Truthy(duration) THEN MetaMs(duration.n)
                                    ELSE MetaUndefined)>>
        emoji == IF statusCode >= 400 THEN "cross" ELSE "check"
        message == Message(lg.config, emoji, "HTTP", statusCode)
                   \o <<Piece("", "message", method, 0), Piece("", "message", path, 0)>>
    IN  IF statusCode >= 400
        THEN warn(lg, message, meta, now)
        ELSE info(lg, message, meta, now)

\* success(message, meta)
success(lg, message, meta, now) ==
    info(lg, Message(lg.config, "sparkles", message, 0), meta, now)

\* failure(message, error, meta)
failure(lg, e, message, err, meta, now) ==
    error(lg, e, Message(lg.config, "collision", message, 0), err, meta, now)

SlowAbove == 1000
ModerateAbove == 100
\* a performance log that already calls SlowAbove itself slow
performanceSlowFrom(lg, operation, duration, meta, now) ==
    LET performanceMeta ==
            Assign(Assign(Assign(meta, "operation", MetaString(operation)),
                          "duration", MetaMs(duration)),
                   "performance",
                   MetaString(IF duration >= SlowAbove THEN "slow"
                              ELSE IF duration > ModerateAbove THEN "moderate"
                              ELSE "fast"))
    IN  IF duration >= SlowAbove
        THEN warn(lg, Message(lg.config, "zap", "Slow operation", 0)
                      \o <<Piece("", "message", operation, 0)>>, performanceMeta, now)
        ELSE info(lg, Message(lg.config, "zap", "Operation completed", 0)
                      \o <<Piece("", "message", operation, 0)>>, performanceMeta, now)
\* performance(operation, duration, meta)
performance(lg, operation, duration, meta, now) ==
    LET performanceMeta ==
            Assign(Assign(Assign(meta, "operation", MetaString(operation)),
                          "duration", MetaMs(duration)),
                   "performance",
                   MetaString(IF duration > SlowAbove THEN "slow"
                              ELSE IF duration > ModerateAbove THEN "moderate"
                              ELSE "fast"))
    IN  IF duration > SlowAbove
        THEN warn(lg, Message(lg.config, "zap", "Slow operation", 0)
                      \o <<Piece("", "message", operation, 0)>>, performanceMeta, now)
        ELSE info(lg, Message(lg.config, "zap", "Operation completed", 0)
                      \o <<Piece("", "message", operation, 0)>>, performanceMeta, now)

\* configure(config): this.config = { ...this.config, ...config }; a key of
\* the argument that is "unset" is absent from it
configure(lg, partial) ==
    [lg EXCEPT !.config =
        [prettyPrint |-> IF partial.prettyPrint = "unset" THEN lg.config.prettyPrint
                         ELSE partial.prettyPrint = "true",
         colors |-> IF partial.colors = "unset" THEN lg.config.colors
                    ELSE partial.colors = "true",
         logLevel |-> IF partial.logLevel = "unset" THEN lg.config.logLevel
                      ELSE partial.logLevel]]

\* list.find(x => x.id === id): the index of the first match, 0 for none
FindIndex(list, id) ==
    IF \E i \in 1..Len(list) : list[i].id = id
    THEN CHOOSE i \in 1..Len(list) :
            /\ list[i].id = id
            /\ \A j \in 1..(i - 1) : list[j].id # id
    ELSE 0

\* mockCourses.filter(course => course.level === level)
RECURSIVE FilterByLevel(_, _)
FilterByLevel(list, level) ==
    IF list = <<>> THEN <<>>
    ELSE (IF Head(list).level = level THEN <<Head(list)>> ELSE <<>>)
         \o FilterByLevel(Tail(list), level)

\* what a handler hands back: status, JSON body, and what it did on the way
Reply(status, body, did) == [status |-> status, body |-> body, steps |-> did]
Failure(message) == [success |-> JFalse, error |-> Text(message)]

-----------------------------------------------------------------------------
(* routes/user *)

\* getUsers(c)
getUsers(r, now) ==
    LET vp == validatePagination(r.page, r.limit)
        startIndex == NumMul(NumSub(vp.page, Num(1)), vp.limit)
        endIndex == NumAdd(startIndex, vp.limit)
        paginatedUsers == Slice(mockUsers, startIndex, endIndex)
    IN  IF ~vp.ok
        THEN Reply(400, formatResponse(Failure(vp.error), now),
                   <<"validatePagination", "logger.error">>)
        ELSE Reply(200,
                   formatResponse(
                       [success |-> JTrue, data |-> paginatedUsers,
                        pagination |-> calculatePagination(vp.page, vp.limit,
                                                           Num(Len(mockUsers)))],
                       now),
                   <<"validatePagination", "read", "slice", "logger.info">>)

\* getUserById(c)
getUserById(r, now) ==
    LET id == parseInt(r.id.s)
        at == FindIndex(mockUsers, id)
    IN  IF IsNaN(id)
        THEN Reply(400, formatResponse(Failure("Invalid user ID"), now), <<>>)
        ELSE IF at = 0
        THEN Reply(404, formatResponse(Failure("User not found"), now), <<"read">>)
        ELSE Reply(200, formatResponse([success |-> JTrue, data |-> mockUsers[at]], now),
                   <<"read", "logger.info">>)

\* createUser(c)
createUser(r, now, newId) ==
    LET body == r.body
    IN  IF body.kind \in {"none", "malformed"}
        THEN Reply(400,
                   formatResponse(Failure("Invalid JSON payload or internal server error"), now),
                   <<"logger.error">>)
        ELSE IF body.kind # "object"
        THEN Reply(400, formatResponse(Failure("Invalid request body"), now), <<>>)
        ELSE IF ~Truthy(body.name) \/ ~Truthy(body.email)
        THEN Reply(400, formatResponse(Failure("Name and email are required fields"), now), <<>>)
        ELSE IF ~validateName(body.name)
        THEN Reply(400, formatResponse(Failure("Name must be between 2 and 100 characters"), now), <<>>)
        ELSE IF ~validateEmail(body.email)
        THEN Reply(400, formatResponse(Failure("Invalid email format"), now), <<>>)
        ELSE Reply(201,
                   formatResponse(
                       [success |-> JTrue, message |-> Text("User created successfully"),
                        data |-> [id |-> Num(newId),
                                  name |-> sanitizeString(body.name),
                                  email |-> sanitizeString(Str(ToLowerCase(body.email.s))),
                                  created |-> IsoString(now)]],
                       now),
                   <<"generateId", "logger.info">>)

\* updateUser(c)
updateUser(r, now) ==
    LET id == parseInt(r.id.s)
        body == r.body
    IN  IF IsNaN(id)
        THEN Reply(400, formatResponse(Failure("Invalid user ID"), now), <<>>)
        ELSE IF body.kind # "object"
        THEN Reply(500, formatResponse(Failure("Internal server error"), now),
                   <<"logger.error">>)
        ELSE IF Truthy(body.name) /\ ~validateName(body.name)
        THEN Reply(400, formatResponse(Failure("Name must be between 2 and 100 characters"), now), <<>>)
        ELSE IF Truthy(body.email) /\ ~validateEmail(body.email)
        THEN Reply(400, formatResponse(Failure("Invalid email format"), now), <<>>)
        ELSE Reply(200,
                   formatResponse(
                       [success |-> JTrue, message |-> Text("User updated successfully"),
                        data |-> [id |-> id,
                                  name |-> IF Truthy(body.name)
                                           THEN sanitizeString(body.name)
                                           ELSE Text("Updated User"),
                                  email |-> IF Truthy(body.email)
                                            THEN sanitizeString(Str(ToLowerCase(body.email.s)))
                                            ELSE Text("updated@example.com"),
                                  created |-> Text("2024-01-01")]],
                       now),
                   <<"logger.info">>)

-----------------------------------------------------------------------------
(* routes/course: the zod-validated routes *)

\* what hono's validator reads for zValidator('json', ...): a request without
\* a JSON content type is validated as {}
JsonTarget(body) ==
    IF body.kind = "none" THEN [body EXCEPT !.kind = "object"] ELSE body

\* getCoursesRoute.get('/', zValidator('query', getCoursesQuerySchema), ...)
getCoursesRoute(r, now) ==
    LET q == getCoursesQuerySchema(r.page, r.limit, r.level)
        filteredCourses == IF Truthy(q.level)
                           THEN FilterByLevel(mockCourses, q.level)
                           ELSE mockCourses
        startIndex == NumMul(NumSub(q.page, Num(1)), q.limit)
        endIndex == NumAdd(startIndex, q.limit)
        paginatedCourses == Slice(filteredCourses, startIndex, endIndex)
    IN  IF ~q.success
        THEN zValidatorRejection(q.issues, <<"zValidator">>)
        ELSE Reply(200,
                   formatResponse(
                       [success |-> JTrue, data |-> paginatedCourses,
                        pagination |-> calculatePagination(q.page, q.limit,
                                                           Num(Len(filteredCourses)))],
                       now),
                   <<"zValidator", "read", "slice", "logger.info">>)

\* getCourseByIdRoute.get('/', zValidator('param', getCourseByIdParamsSchema), ...)
getCourseByIdRoute(r, now) ==
    LET p == getCourseByIdParamsSchema(r.id)
        at == FindIndex(mockCourses, p.id)
    IN  IF ~p.success
        THEN zValidatorRejection(p.issues, <<"zValidator">>)
        ELSE IF at = 0
        THEN Reply(404, formatResponse(Failure("Course not found"), now),
                   <<"zValidator", "read">>)
        ELSE Reply(200, formatResponse([success |-> JTrue, data |-> mockCourses[at]], now),
                   <<"zValidator", "read", "logger.info">>)

\* createCourseRoute.post('/', zValidator('json', createCourseBodySchema), ...)
createCourseRoute(r, now, newId) ==
    LET v == createCourseBodySchema(JsonTarget(r.body))
    IN  IF ~v.success
        THEN zValidatorRejection(v.issues, <<"zValidator">>)
        ELSE Reply(201,
                   formatResponse(
                       [success |-> JTrue, message |-> Text("Course created successfully"),
                        data |-> [id |-> Num(newId),
                                  title |-> v.data.title,
                                  description |-> v.data.description,
                                  instructor |-> v.data.instructor,
                                  duration |-> v.data.duration,
                                  level |-> v.data.level,
                                  created |-> IsoString(now),
                                  updated |-> IsoString(now)]],
                       now),
                   <<"zValidator", "generateId", "logger.info">>)

\* updateCourseRoute.put('/', zValidator('param', ...), zValidator('json', ...), ...)
updateCourseRoute(r, now) ==
    LET p == updateCourseParamsSchema(r.id)
        v == updateCourseBodySchema(JsonTarget(r.body))
    IN  IF ~p.success
        THEN zValidatorRejection(p.issues, <<"zValidator">>)
        ELSE IF ~v.success
        THEN zValidatorRejection(v.issues, <<"zValidator", "zValidator">>)
        ELSE Reply(200,
                   formatResponse(
                       [success |-> JTrue, message |-> Text("Course updated successfully"),
                        data |-> [id |-> p.id,
                                  title |-> OrElse(v.data.title, Text("Updated Course")),
                                  description |-> OrElse(v.data.description,
                                                         Text("Updated description")),
                                  instructor |-> OrElse(v.data.instructor,
                                                        Text("Updated Instructor")),
                                  duration |-> OrElse(v.data.duration, Num(30)),
                                  level |-> OrElse(v.data.level, Text("beginner")),
                                  created |-> Text("2024-01-01"),
                                  updated |-> IsoString(now)]],
                       now),
                   <<"zValidator", "zValidator", "logger.info">>)

-----------------------------------------------------------------------------
(* routes/course: the handlers that validate by hand *)

\* x.length < k and x.length > k: false when x has no length
LengthBelow(v, k) == HasLength(v) /\ Length(v) < k
LengthAbove(v, k) == HasLength(v) /\ Length(v) > k

\* the number a relational operator compares: strings are converted
AsNumber(v) ==
    IF IsNumber(v) THEN v
    ELSE IF IsString(v) /\ "s" \in DOMAIN v THEN ToNumber(v.s)
    ELSE NaN

IsLevel(v) == IsString(v) /\ "text" \in DOMAIN v /\ v.text \in Levels

\* validateCourseRequest(body): the first violated rule's message, or null
validateCourseRequest(body) ==
    IF ~Truthy(body.title) \/ LengthBelow(body.title, TitleMin)
       \/ LengthAbove(body.title, TitleMax)
    THEN Text("Title must be between 3 and 100 characters")
    ELSE IF ~Truthy(body.description) \/ LengthBelow(body.description, DescriptionMin)
            \/ LengthAbove(body.description, DescriptionMax)
    THEN Text("Description must be between 10 and 500 characters")
    ELSE IF ~Truthy(body.instructor) \/ LengthBelow(body.instructor, InstructorMin)
            \/ LengthAbove(body.instructor, InstructorMax)
    THEN Text("Instructor name must be between 2 and 50 characters")
    ELSE IF ~Truthy(body.duration) \/ NumLt(AsNumber(body.duration), Num(DurationMin))
            \/ NumGt(AsNumber(body.duration), Num(DurationMax))
    THEN Text("Duration must be between 1 and 200 hours")
    ELSE IF ~IsLevel(body.level)
    THEN Text("Level must be beginner, intermediate, or advanced")
    ELSE Null

\* input.trim() throws a TypeError unless input is a string
CanTrim(v) == IsString(v) /\ "s" \in DOMAIN v

\* createCourse(c)
createCourse(r, now, newId) ==
    LET body == r.body
        validationError == validateCourseRequest(body)
    IN  IF body.kind \in {"none", "malformed"}
        THEN Reply(400,
                   formatResponse(Failure("Invalid JSON payload or internal server error"), now),
                   <<"logger.error">>)
        ELSE IF body.kind # "object"
        THEN Reply(400, formatResponse(Failure("Invalid request body"), now), <<>>)
        ELSE IF Truthy(validationError)
        THEN Reply(400,
                   formatResponse([success |-> JFalse, error |-> validationError], now),
                   <<"validateCourseRequest">>)
        ELSE IF ~CanTrim(body.title) \/ ~CanTrim(body.description)
                \/ ~CanTrim(body.instructor)
        THEN Reply(400,
                   formatResponse(Failure("Invalid JSON payload or internal server error"), now),
                   <<"validateCourseRequest", "generateId", "logger.error">>)
        ELSE Reply(201,
                   formatResponse(
                       [success |-> JTrue, message |-> Text("Course created successfully"),
                        data |-> [id |-> Num(newId),
                                  title |-> sanitizeString(body.title),
                                  description |-> sanitizeString(body.description),
                                  instructor |-> sanitizeString(body.instructor),
                                  duration |-> body.duration,
                                  level |-> body.level,
                                  created |-> IsoString(now),
                                  updated |-> IsoString(now)]],
                       now),
                   <<"validateCourseRequest", "generateId", "logger.info">>)

\* updateCourse(c)
updateCourse(r, now) ==
    LET id == parseInt(r.id.s)
        body == r.body
    IN  IF IsNaN(id)
        THEN Reply(400, formatResponse(Failure("Invalid course ID"), now), <<>>)
        ELSE IF body.kind # "object"
        THEN Reply(500, formatResponse(Failure("Internal server error"), now),
                   <<"logger.error">>)
        ELSE IF Truthy(body.title)
                /\ (LengthBelow(body.title, TitleMin) \/ LengthAbove(body.title, TitleMax))
        THEN Reply(400, formatResponse(Failure("Title must be between 3 and 100 characters"), now), <<>>)
        ELSE IF Truthy(body.description)
                /\ (LengthBelow(body.description, DescriptionMin)
                    \/ LengthAbove(body.description, DescriptionMax))
        THEN Reply(400, formatResponse(Failure("Description must be between 10 and 500 characters"), now), <<>>)
        ELSE IF Truthy(body.level) /\ ~IsLevel(body.level)
        THEN Reply(400, formatResponse(Failure("Level must be beginner, intermediate, or advanced"), now), <<>>)
        ELSE IF (Truthy(body.title) /\ ~CanTrim(body.title))
                \/ (Truthy(body.description) /\ ~CanTrim(body.description))
                \/ (Truthy(body.instructor) /\ ~CanTrim(body.instructor))
        THEN Reply(500, formatResponse(Failure("Internal server error"), now),
                   <<"logger.error">>)
        ELSE Reply(200,
                   formatResponse(
                       [success |-> JTrue, message |-> Text("Course updated successfully"),
                        data |-> [id |-> id,
                                  title |-> IF Truthy(body.title)
                                            THEN sanitizeString(body.title)
                                            ELSE Text("Updated Course"),
                                  description |-> IF Truthy(body.description)
                                                  THEN sanitizeString(body.description)
                                                  ELSE Text("Updated description"),
                                  instructor |-> IF Truthy(body.instructor)
                                                 THEN sanitizeString(body.instructor)
                                                 ELSE Text("Updated Instructor"),
                                  duration |-> OrElse(body.duration, Num(30)),
                                  level |-> OrElse(body.level, Text("beginner")),
                                  created |-> Text("2024-01-01"),
                                  updated |-> IsoString(now)]],
                       now),
                   <<"logger.info">>)

\* getCourses(c)
getCourses(r, now) ==
    LET vp == validatePagination(r.page, r.limit)
        filteredCourses == IF Truthy(r.level) /\ IsLevel(r.level)
                           THEN FilterByLevel(mockCourses, r.level)
                           ELSE mockCourses
        startIndex == NumMul(NumSub(vp.page, Num(1)), vp.limit)
        endIndex == NumAdd(startIndex, vp.limit)
        paginatedCourses == Slice(filteredCourses, startIndex, endIndex)
    IN  IF ~vp.ok
        THEN Reply(400, formatResponse(Failure(vp.error), now),
                   <<"validatePagination", "logger.error">>)
        ELSE Reply(200,
                   formatResponse(
                       [success |-> JTrue, data |-> paginatedCourses,
                        pagination |-> calculatePagination(vp.page, vp.limit,
                                                           Num(Len(filteredCourses)))],
                       now),
                   <<"validatePagination", "read", "slice", "logger.info">>)

\* getCourseById(c)
getCourseById(r, now) ==
    LET id == parseInt(r.id.s)
        at == FindIndex(mockCourses, id)
    IN  IF IsNaN(id)
        THEN Reply(400, formatResponse(Failure("Invalid course ID"), now), <<>>)
        ELSE IF at = 0
        THEN Reply(404, formatResponse(Failure("Course not found"), now), <<"read">>)
        ELSE Reply(200, formatResponse([success |-> JTrue, data |-> mockCourses[at]], now),
                   <<"read", "logger.info">>)

-----------------------------------------------------------------------------
(* index.ts: the middleware chain around the routes *)

\* the size middleware: content-length present and above the parsed maximum
\* a size check that also turns away a request of exactly the maximum size
TooLargeOrEqual(r) ==
    /\ Truthy(r.contentLength)
    /\ ~NumLt(parseInt(r.contentLength.s),
              Num(parseRequestSize(env.MAX_REQUEST_SIZE).bytes))
TooLarge(r) ==
    /\ Truthy(r.contentLength)
    /\ NumGt(parseInt(r.contentLength.s),
             Num(parseRequestSize(env.MAX_REQUEST_SIZE).bytes))

\* what the origin callback returns: the origin it was given, or null
ReturnsOrigin(origin) == [returns |-> "origin", value |-> origin, warned |-> FALSE]
ReturnsNull(warned) == [returns |-> "null", value |-> "", warned |-> warned]
Includes(list, x) == \E i \in 1..Len(list) : list[i] = x

\* an origin callback that lets every origin through in development
corsOriginOpenInDevelopment(e, origin) ==
    IF origin = "" THEN ReturnsOrigin(origin)
    ELSE IF e.NODE_ENV = "development" THEN ReturnsOrigin(origin)
    ELSE IF e.NODE_ENV = "production"
    THEN IF Len(e.CORS_ORIGINS) = 0 THEN ReturnsNull(TRUE)
         ELSE IF Includes(e.CORS_ORIGINS, origin) THEN ReturnsOrigin(origin)
         ELSE ReturnsNull(FALSE)
    ELSE ReturnsNull(FALSE)
\* cors({ origin: (origin, c) => ... }) under the environment e; origin is ''
\* for a request without an Origin header
corsOrigin(e, origin) ==
    IF origin = "" THEN ReturnsOrigin(origin)
    ELSE IF e.NODE_ENV = "development"
    THEN IF Includes(e.CORS_ORIGINS, origin) THEN ReturnsOrigin(origin)
         ELSE ReturnsNull(FALSE)
    ELSE IF e.NODE_ENV = "production"
    THEN IF Len(e.CORS_ORIGINS) = 0 THEN ReturnsNull(TRUE)
         ELSE IF Includes(e.CORS_ORIGINS, origin) THEN ReturnsOrigin(origin)
         ELSE ReturnsNull(FALSE)
    ELSE ReturnsNull(FALSE)

\* the size middleware's 413 answer
requestTooLarge(r, now) ==
    Reply(413,
          [success |-> JFalse,
           error |-> [t |-> "string", text |-> "Request too large. Maximum size: ",
                      max |-> env.MAX_REQUEST_SIZE],
           timestamp |-> IsoString(now)],
          <<>>)

\* requests on which something throws past every handler's own try/catch:
\* parseRequestSize on a malformed maximum, and hono's validator on a JSON
\* body that does not parse ('Malformed JSON in request body')
Throws(r) ==
    \/ Truthy(r.contentLength) /\ ~parseRequestSize(env.MAX_REQUEST_SIZE).ok
    \/ r.handler = "createCourseRoute" /\ r.body.kind = "malformed"
    \/ /\ r.handler = "updateCourseRoute" /\ r.body.kind = "malformed"
       /\ updateCourseParamsSchema(r.id).success

\* app.onError((err, c) => ...)
onError(r, now) ==
    Reply(500,
          [success |-> JFalse,
           error |-> IF isDevelopment
                     THEN Text(IF r.body.kind = "malformed"
                               THEN "Malformed JSON in request body"
                               ELSE "Invalid request size format")
                     ELSE Text("Internal server error"),
           timestamp |-> IsoString(now)],
          <<"logger.error">>)

\* app.notFound((c) => ...)
notFound(r, now) ==
    Reply(404,
          [success |-> JFalse, error |-> Text("Route not found"),
           timestamp |-> IsoString(now)],
          <<"logger.warn">>)

(* the first entry point (unnamed/part_001): /health and / *)

\* app.get('/health', ...)
health(r, now) ==
    Reply(200,
          [status |-> Text("healthy"), timestamp |-> IsoString(now),
           version |-> Text("1.0.0"), region |-> Text("asia-south1"),
           memory |-> Text("1GB")],
          <<>>)

\* app.get('/', ...)
root(r, now) ==
    Reply(200,
          [message |-> Text("GCP Hono.js Serverless API"), version |-> Text("1.0.0"),
           endpoints |-> <<Text("GET /health - Health check"),
                           Text("GET /api/users - Get users list with pagination"),
                           Text("POST /api/users - Create new user")>>,
           timestamp |-> IsoString(now)],
          <<>>)

-----------------------------------------------------------------------------
(* the requests the model sends *)

Pads == 0..MaxPad
\* lead blanks, then core letters, then trail blanks
Padded(lead, core, trail) == Str(Rep(" ", lead) \o Rep("a", core) \o Rep(" ", trail))
PaddedStrings(cores) == {Padded(l, c, t) : l \in Pads, c \in cores, t \in Pads}

TitleInputs ==
    {Undefined, Null, Num(5)}
    \cup PaddedStrings({0, 1, TitleMin - 1, TitleMin, TitleMax, TitleMax + 1})
DescriptionInputs ==
    {Undefined, Null, Num(5)}
    \cup PaddedStrings({0, DescriptionMin - 2, DescriptionMin - 1, DescriptionMin,
                        DescriptionMax, DescriptionMax + 1})
InstructorInputs ==
    {Undefined, Null, Num(5)}
    \cup PaddedStrings({0, InstructorMin - 1, InstructorMin, InstructorMax,
                        InstructorMax + 1})
DurationInputs ==
    {Undefined, Null, Str(<<"5", "0">>), Rat(3, 2), Num(-1), Num(0),
     Num(DurationMin), Num(DurationMax), Num(DurationMax + 1), Num(500)}
LevelInputs ==
    {Undefined, Null, Num(5), Text("guru"), Text("")} \cup {Text(l) : l \in Levels}

ValidTitle == Padded(0, TitleMin, 0)
ValidDescription == Padded(0, DescriptionMin, 0)
ValidInstructor == Padded(0, InstructorMin, 0)
ValidDuration == Num(DurationMin)
ValidLevel == Text("beginner")

Body(kind, title, description, instructor, duration, level, name, email) ==
    [kind |-> kind, title |-> title, description |-> description,
     instructor |-> instructor, duration |-> duration, level |-> level,
     name |-> name, email |-> email]
CourseBody(t, d, i, u, l) == Body("object", t, d, i, u, l, Undefined, Undefined)
UserBody(n, e) ==
    Body("object", Undefined, Undefined, Undefined, Undefined, Undefined, n, e)
\* no body, a body that is not JSON, the JSON value null, the object {}
BodyOfKind(kind) ==
    Body(kind, Undefined, Undefined, Undefined, Undefined, Undefined, Undefined, Undefined)
NoBody == BodyOfKind("none")
OtherBodies == {BodyOfKind(k) : k \in {"none", "malformed", "null", "object"}}

\* every combination of absent / valid / violating values of the five fields,
\* and every value of each field next to valid values of the others
CourseBodies ==
    {CourseBody(t, d, i, u, l) :
        t \in {Undefined, ValidTitle, Padded(0, TitleMin - 1, 0)},
        d \in {Undefined, ValidDescription, Padded(0, DescriptionMin - 1, 0)},
        i \in {Undefined, ValidInstructor, Padded(0, InstructorMin - 1, 0)},
        u \in {Undefined, ValidDuration, Num(500)},
        l \in {Undefined, ValidLevel, Text("guru")}}
    \cup {CourseBody(t, ValidDescription, ValidInstructor, ValidDuration, ValidLevel) :
            t \in TitleInputs}
    \cup {CourseBody(ValidTitle, d, ValidInstructor, ValidDuration, ValidLevel) :
            d \in DescriptionInputs}
    \cup {CourseBody(ValidTitle, ValidDescription, i, ValidDuration, ValidLevel) :
            i \in InstructorInputs}
    \cup {CourseBody(ValidTitle, ValidDescription, ValidInstructor, u, ValidLevel) :
            u \in DurationInputs}
    \cup {CourseBody(ValidTitle, ValidDescription, ValidInstructor, ValidDuration, l) :
            l \in LevelInputs}
    \cup OtherBodies

NameInputs ==
    {Undefined, Num(5)} \cup PaddedStrings({0, NameMin - 1, NameMin, NameMax, NameMax + 1})
EmailInputs ==
    {Undefined, Num(5),
     Str(<<"a", "@", "b", ".", "c">>), Str(<<"A", "@", "B", ".", "c">>),
     Str(<<" ", "a", "@", "b", ".", "c">>), Str(<<"a", "@", "b">>),
     Str(<<"a", "b", ".", "c">>), Str(<<"a", "@", "@", "b", ".", "c">>),
     Str(<<"a", "@", "b", ".", "c", ".", "d">>)}
UserBodies == {UserBody(n, e) : n \in NameInputs, e \in EmailInputs} \cup OtherBodies

\* path parameters: a path segment is never empty
IdChars == {"1", "9", "a", " ", "-", "."}
IdInputs == {Str(s) : s \in StringsUpTo(IdChars, MaxStrLen) \ {<<>>}}
FewIds == {Str(<<"1">>), Str(<<"9", "9">>), Str(<<"1", "a">>)}

\* query strings
QueryChars == {"0", "1", "2", ".", "a"}
QueryInputs ==
    {Undefined}
    \cup {Str(s) : s \in StringsUpTo(QueryChars, MaxQueryLen)}
    \cup {Str(<<"1", "0", "0">>), Str(<<"1", "0", "1">>), Str(<<"-", "1">>),
          Str(<<" ", "1">>), Str(<<"2", ".", "5">>)}
FewQueryInputs == {Undefined, Str(<<"1">>), Str(<<"2">>)}
LevelQueries == {Undefined, Text("guru")} \cup {Text(l) : l \in Levels}

\* content-length headers around both configured maxima
MaxBytes == {5 * KiB * KiB, 10 * KiB * KiB}
ContentLengths ==
    {Undefined, Str(<<"0">>)}
    \cup {Str(ToDecimal(m)) : m \in MaxBytes}
    \cup {Str(ToDecimal(m + 1)) : m \in MaxBytes}

Request(handler, id, page, limit, level, body, contentLength) ==
    [handler |-> handler, id |-> id, page |-> page, limit |-> limit,
     level |-> level, body |-> body, contentLength |-> contentLength]

ListRequests(handler) ==
    {Request(handler, Undefined, p, l, Undefined, NoBody, Undefined) :
        p \in QueryInputs, l \in QueryInputs}
    \cup {Request(handler, Undefined, p, l, v, NoBody, Undefined) :
            p \in FewQueryInputs, l \in FewQueryInputs, v \in LevelQueries}
ByIdRequests(handler) ==
    {Request(handler, i, Undefined, Undefined, Undefined, NoBody, Undefined) :
        i \in IdInputs}
CreateRequests(handler, bodies) ==
    {Request(handler, Undefined, Undefined, Undefined, Undefined, b, Undefined) :
        b \in bodies}
    \cup {Request(handler, Undefined, Undefined, Undefined, Undefined, b, n) :
            b \in OtherBodies, n \in ContentLengths}
UpdateRequests(handler, bodies) ==
    {Request(handler, i, Undefined, Undefined, Undefined, b, Undefined) :
        i \in IdInputs, b \in OtherBodies}
    \cup {Request(handler, i, Undefined, Undefined, Undefined, b, Undefined) :
            i \in FewIds, b \in bodies}
PlainRequests(handler) ==
    {Request(handler, Undefined, Undefined, Undefined, Undefined, NoBody, n) :
        n \in ContentLengths}

RequestsOf(handler) ==
    CASE handler \in {"getUsers", "getCourses", "getCoursesRoute"} -> ListRequests(handler)
      [] handler \in {"getUserById", "getCourseById", "getCourseByIdRoute"} ->
            ByIdRequests(handler)
      [] handler = "createUser" -> CreateRequests(handler, UserBodies)
      [] handler \in {"createCourse", "createCourseRoute"} ->
            CreateRequests(handler, CourseBodies)
      [] handler = "updateUser" -> UpdateRequests(handler, UserBodies)
      [] handler \in {"updateCourse", "updateCourseRoute"} ->
            UpdateRequests(handler, CourseBodies)
      [] OTHER -> PlainRequests(handler)

-----------------------------------------------------------------------------
(* the state machine *)

NoRequest == Request("none", Undefined, Undefined, Undefined, Undefined, NoBody, Undefined)
NoResponse == [status |-> 0, body |-> [none |-> JTrue]]
NoCall == [fn |-> "none", args |-> <<>>, done |-> FALSE]
NoRet == [none |-> TRUE]

Init ==
    /\ mockUsers = MockUsers
    /\ mockCourses = MockCourses
    /\ env \in Environments
    /\ clock = 0
    /\ req = NoRequest
    /\ res = NoResponse
    /\ steps = <<>>
    /\ call = NoCall
    /\ ret = NoRet
    /\ logger = NewLogger(env)
    /\ console = <<>>
    /\ versionFile = NoFile
    /\ run = NoRun
    /\ inflight = NoneInFlight

\* time passes
Tick ==
    /\ clock < MaxClock
    /\ clock' = clock + 1
    /\ UNCHANGED <<mockUsers, mockCourses, env, req, res, steps, call, ret, logger, console, versionFile, run, inflight>>

Idle == req.handler = "none"

\* the response has been sent and the request context is dropped
Finish ==
    /\ ~Idle
    /\ req' = NoRequest
    /\ res' = NoResponse
    /\ steps' = <<>>
    /\ UNCHANGED <<mockUsers, mockCourses, env, clock, call, ret, logger, console, versionFile, run, inflight>>

\* a process whose createUser pushes the new record onto the list
RespondAndStore(r, out, did) ==
    /\ Idle
    /\ req' = r
    /\ res' = [status |-> out.status, body |-> out.body]
    /\ steps' = did
    /\ mockUsers' = IF r.handler = "createUser" /\ out.status = 201
                    THEN Append(mockUsers, out.body.data) ELSE mockUsers
    /\ UNCHANGED <<mockCourses, env, clock, call, ret, logger, console, versionFile, run, inflight>>
\* a request arrives at the idle process and is answered; no handler
\* assigns to a resource list
Respond(r, out, did) ==
    /\ Idle
    /\ req' = r
    /\ res' = [status |-> out.status, body |-> out.body]
    /\ steps' = did
    /\ UNCHANGED <<mockUsers, mockCourses, env, clock, call, ret, logger, console, versionFile, run, inflight>>

\* a request that reaches its route: size check, request logging around it
Routed(r, out) ==
    /\ ~TooLarge(r)
    /\ ~Throws(r)
    /\ Respond(r, out, <<"sizeCheck">> \o out.steps \o <<"logger.request">>)

RejectTooLarge ==
    /\ Idle
    /\ \E h \in {"createUser", "createCourse", "createCourseRoute", "notFound"} :
           \E r \in RequestsOf(h) :
               /\ ~(Truthy(r.contentLength) /\ ~parseRequestSize(env.MAX_REQUEST_SIZE).ok)
               /\ TooLarge(r)
               /\ Respond(r, requestTooLarge(r, clock), <<"sizeCheck">>)

OnError ==
    /\ Idle
    /\ \E h \in {"createCourseRoute", "updateCourseRoute"} :
           \E r \in RequestsOf(h) :
               /\ Throws(r)
               /\ ~TooLarge(r)
               /\ Respond(r, onError(r, clock),
                          <<"sizeCheck">> \o onError(r, clock).steps \o <<"logger.request">>)

NotFound ==
    /\ Idle
    /\ \E r \in RequestsOf("notFound") : Routed(r, notFound(r, clock))

Health ==
    /\ Idle
    /\ \E r \in RequestsOf("health") : Respond(r, health(r, clock), <<>>)

Root ==
    /\ Idle
    /\ \E r \in RequestsOf("root") : Respond(r, root(r, clock), <<>>)

GetUsers ==
    /\ Idle
    /\ \E r \in RequestsOf("getUsers") : Routed(r, getUsers(r, clock))

GetUserById ==
    /\ Idle
    /\ \E r \in RequestsOf("getUserById") : Routed(r, getUserById(r, clock))

CreateUser ==
    /\ Idle
    /\ \E r \in RequestsOf("createUser") : \E newId \in GeneratedIds :
           Routed(r, createUser(r, clock, newId))

UpdateUser ==
    /\ Idle
    /\ \E r \in RequestsOf("updateUser") : Routed(r, updateUser(r, clock))

GetCoursesRoute ==
    /\ Idle
    /\ \E r \in RequestsOf("getCoursesRoute") : Routed(r, getCoursesRoute(r, clock))

GetCourseByIdRoute ==
    /\ Idle
    /\ \E r \in RequestsOf("getCourseByIdRoute") : Routed(r, getCourseByIdRoute(r, clock))

CreateCourseRoute ==
    /\ Idle
    /\ \E r \in RequestsOf("createCourseRoute") : \E newId \in GeneratedIds :
           Routed(r, createCourseRoute(r, clock, newId))

UpdateCourseRoute ==
    /\ Idle
    /\ \E r \in RequestsOf("updateCourseRoute") : Routed(r, updateCourseRoute(r, clock))

GetCourses ==
    /\ Idle
    /\ \E r \in RequestsOf("getCourses") : Routed(r, getCourses(r, clock))

GetCourseById ==
    /\ Idle
    /\ \E r \in RequestsOf("getCourseById") : Routed(r, getCourseById(r, clock))

CreateCourse ==
    /\ Idle
    /\ \E r \in RequestsOf("createCourse") : \E newId \in GeneratedIds :
           Routed(r, createCourse(r, clock, newId))

UpdateCourse ==
    /\ Idle
    /\ \E r \in RequestsOf("updateCourse") : Routed(r, updateCourse(r, clock))

Next ==
    \/ Tick
    \/ Finish
    \/ RejectTooLarge
    \/ OnError
    \/ NotFound
    \/ Health
    \/ Root
    \/ GetUsers
    \/ GetUserById
    \/ CreateUser
    \/ UpdateUser
    \/ GetCoursesRoute
    \/ GetCourseByIdRoute
    \/ CreateCourseRoute
    \/ UpdateCourseRoute
    \/ GetCourses
    \/ GetCourseById
    \/ CreateCourse
    \/ UpdateCourse

Spec == Init /\ [][Next]_vars

-----------------------------------------------------------------------------
(* direct calls of the formatting utilities *)

ArgChars == {"0", "1", "2", "5", ".", "a", " ", "-"}
ArgStrings == {Undefined} \cup {Str(s) : s \in StringsUpTo(ArgChars, MaxStrLen)}
FewPageArgs == {Undefined, Str(<<"1">>), Str(<<"0">>), Str(<<"a">>)}
FewLimitArgs ==
    {Undefined, Str(<<"1">>), Str(<<"1", "0", "0">>), Str(<<"1", "0", "1">>),
     Str(<<"0">>), Str(<<"a">>)}

Call(fn, args) == [fn |-> fn, args |-> args, done |-> FALSE]

validatePaginationCalls ==
    {Call("validatePagination", <<p, l>>) : p \in ArgStrings, l \in FewLimitArgs}
    \cup {Call("validatePagination", <<p, l>>) : p \in FewPageArgs, l \in ArgStrings}

calculatePaginationCalls ==
    {Call("calculatePagination", <<Num(p), Num(l), Num(n)>>) :
        p \in 1..3, l \in (1..(MaxTotal + 1)) \cup {MaxLimit}, n \in 0..MaxTotal}

SizeChars == {"0", "1", "5", "k", "m", "b", "K", "M", "B", " ", "-", ".", "a"}
parseRequestSizeCalls ==
    {Call("parseRequestSize", <<Str(s)>>) :
        s \in StringsUpTo(SizeChars, MaxStrLen)
              \cup {<<"1", "0", "m", "b">>, <<"1", "0", "2", "4">>, <<"5", "1", "2", "K", "b">>,
                    <<"1", "0", " ", "m", "b">>, <<"1", "0", "g", "b">>}}

\* response bodies handed to formatResponse, one of them already stamped
ResponseBodies ==
    { [success |-> JTrue],
      [success |-> JTrue, data |-> Text("x")],
      [success |-> JTrue, message |-> Text("done"), data |-> Text("x")],
      [success |-> JFalse, error |-> Text("e")],
      [success |-> JFalse, error |-> Text("e"), timestamp |-> Text("old")],
      [status |-> Text("healthy")] }
formatResponseCalls == {Call("formatResponse", <<x>>) : x \in ResponseBodies}

\* Origin headers ('' for none) and configured origin lists
OriginHeaders ==
    {"", "http://localhost:3000", "http://localhost:3001", "https://example.com",
     "https://example.com.evil.io", "HTTPS://EXAMPLE.COM", "null"}
OriginLists ==
    {<<>>, <<"http://localhost:3000", "http://localhost:3001">>,
     <<"https://example.com">>, <<"https://example.com", "http://localhost:3000">>}
CorsEnvironments ==
    {[NODE_ENV |-> n, CORS_ORIGINS |-> l] :
        n \in {"development", "production", "test"}, l \in OriginLists}
corsOriginCalls ==
    {Call("corsOrigin", <<e, o>>) : e \in CorsEnvironments, o \in OriginHeaders}

FnCalls ==
    validatePaginationCalls \cup calculatePaginationCalls
    \cup parseRequestSizeCalls \cup formatResponseCalls \cup corsOriginCalls

InitFn ==
    /\ mockUsers = MockUsers
    /\ mockCourses = MockCourses
    /\ env \in Environments
    /\ clock = 0
    /\ req = NoRequest
    /\ res = NoResponse
    /\ steps = <<>>
    /\ call \in FnCalls
    /\ ret = NoRet
    /\ logger = NewLogger(env)
    /\ console = <<>>
    /\ versionFile = NoFile
    /\ run = NoRun
    /\ inflight = NoneInFlight

Return(value) ==
    /\ ~call.done
    /\ call' = [call EXCEPT !.done = TRUE]
    /\ ret' = value
    /\ UNCHANGED <<mockUsers, mockCourses, env, clock, req, res, steps, logger, console, versionFile, run, inflight>>

CallValidatePagination ==
    /\ call.fn = "validatePagination"
    /\ Return(validatePagination(call.args[1], call.args[2]))

CallCalculatePagination ==
    /\ call.fn = "calculatePagination"
    /\ Return(calculatePagination(call.args[1], call.args[2], call.args[3]))

CallParseRequestSize ==
    /\ call.fn = "parseRequestSize"
    /\ Return(parseRequestSize(call.args[1].s))

\* formatResponse(x), and formatResponse applied to its own result later on
CallFormatResponse ==
    /\ call.fn = "formatResponse"
    /\ \E t1 \in 0..MaxClock : \E t2 \in t1..MaxClock :
          LET once == formatResponse(call.args[1], t1)
          IN  Return([arg |-> call.args[1], once |-> once,
                      twice |-> formatResponse(once, t2)])

CallCorsOrigin ==
    /\ call.fn = "corsOrigin"
    /\ Return(corsOrigin(call.args[1], call.args[2]))

NextFn ==
    \/ CallValidatePagination
    \/ CallCalculatePagination
    \/ CallParseRequestSize
    \/ CallFormatResponse
    \/ CallCorsOrigin

SpecFn == InitFn /\ [][NextFn]_vars

-----------------------------------------------------------------------------
(* direct calls of the logger *)

\* any threshold in either mode
LogEnvironments ==
    {[e EXCEPT !.LOG_LEVEL = LogLevels[k]] : e \in Environments, k \in 1..Len(LogLevels)}

Metas ==
    { <<>>,
      <<Entry("userId", MetaNumber(7))>>,
      <<Entry("context", MetaObject(<<Entry("route", MetaString("/api/users"))>>))>> }
\* metadata that already uses the keys performance() sets
PerformanceMetas ==
    Metas \cup {<<Entry("performance", MetaString("fast")),
                  Entry("duration", MetaString("none")),
                  Entry("rows", MetaNumber(3))>>}
Errors == {NoError, ErrorObject("TypeError", "boom", "at handler (index.js:1:1)"),
           OtherError("timeout")}
StatusCodes == {200, 201, 399, 400, 404, 500}
Durations == {0, 1, ModerateAbove, ModerateAbove + 1, SlowAbove, SlowAbove + 1}
RequestDurations == {Undefined} \cup {Num(d) : d \in {0, 1, ModerateAbove + 1}}
Partials ==
    [prettyPrint : {"unset", "true", "false"}, colors : {"unset", "true", "false"},
     logLevel : {"unset"} \cup {LogLevels[k] : k \in 1..Len(LogLevels)}]
NoPartial == [prettyPrint |-> "unset", colors |-> "unset", logLevel |-> "unset"]

LogArgs(message, meta, err, statusCode, duration, partial) ==
    [message |-> message, meta |-> meta, err |-> err, statusCode |-> statusCode,
     duration |-> duration, partial |-> partial]
NoLogCall ==
    [fn |-> "none", args |-> LogArgs("", <<>>, NoError, 0, Undefined, NoPartial),
     done |-> FALSE]

InitLog ==
    /\ mockUsers = MockUsers
    /\ mockCourses = MockCourses
    /\ env \in LogEnvironments
    /\ clock \in 0..MaxClock
    /\ req = NoRequest
    /\ res = NoResponse
    /\ steps = <<>>
    /\ call = NoLogCall
    /\ ret = NoRet
    /\ logger = NewLogger(env)
    /\ console = <<>>
    /\ versionFile = NoFile
    /\ run = NoRun
    /\ inflight = NoneInFlight

\* a call of a logger method with these arguments wrote this to the console
Logged(fn, args, writes) ==
    /\ call' = [fn |-> fn, args |-> args, done |-> TRUE]
    /\ console' = writes
    /\ UNCHANGED <<mockUsers, mockCourses, env, clock, req, res, steps, ret, logger, versionFile, run, inflight>>

Configure ==
    \E partial \in Partials :
        /\ call' = [fn |-> "configure", done |-> TRUE,
                    args |-> LogArgs("", <<>>, NoError, 0, Undefined, partial)]
        /\ logger' = configure(logger, partial)
        /\ console' = <<>>
        /\ UNCHANGED <<mockUsers, mockCourses, env, clock, req, res, steps, ret, versionFile, run, inflight>>

Debug ==
    \E meta \in Metas :
        Logged("debug", LogArgs("m", meta, NoError, 0, Undefined, NoPartial),
               debug(logger, <<Piece("", "message", "m", 0)>>, meta, clock))
Info ==
    \E meta \in Metas :
        Logged("info", LogArgs("m", meta, NoError, 0, Undefined, NoPartial),
               info(logger, <<Piece("", "message", "m", 0)>>, meta, clock))
Warn ==
    \E meta \in Metas :
        Logged("warn", LogArgs("m", meta, NoError, 0, Undefined, NoPartial),
               warn(logger, <<Piece("", "message", "m", 0)>>, meta, clock))
Error ==
    \E meta \in Metas, err \in Errors :
        Logged("error", LogArgs("m", meta, err, 0, Undefined, NoPartial),
               error(logger, env, <<Piece("", "message", "m", 0)>>, err, meta, clock))
LogRequest ==
    \E statusCode \in StatusCodes, duration \in RequestDurations :
        Logged("request", LogArgs("GET /api/users", <<>>, NoError, statusCode, duration,
                                  NoPartial),
               request(logger, "GET", "/api/users", statusCode, duration, clock))
Success ==
    \E meta \in Metas :
        Logged("success", LogArgs("m", meta, NoError, 0, Undefined, NoPartial),
               success(logger, "m", meta, clock))
LogFailure ==
    \E meta \in Metas, err \in Errors :
        Logged("failure", LogArgs("m", meta, err, 0, Undefined, NoPartial),
               failure(logger, env, "m", err, meta, clock))
Performance ==
    \E meta \in PerformanceMetas, duration \in Durations :
        Logged("performance", LogArgs("query", meta, NoError, 0, Num(duration), NoPartial),
               performance(logger, "query", duration, meta, clock))

NextLog ==
    \/ Configure
    \/ Debug
    \/ Info
    \/ Warn
    \/ Error
    \/ LogRequest
    \/ Success
    \/ LogFailure
    \/ Performance

SpecLog == InitLog /\ [][NextLog]_vars

-----------------------------------------------------------------------------
(* scripts/deploy: version management and the deployment run *)

File(text) == [exists |-> TRUE, text |-> text]

\* get_current_version
get_current_version ==
    IF versionFile.exists THEN versionFile.text ELSE <<"v", "1", ".", "0", ".", "0">>

\* ${current_version#v}
StripV(s) == IF s # <<>> /\ Head(s) = "v" THEN Tail(s) ELSE s
\* the position of the first '.' in s, Len(s) + 1 if there is none
FirstDot(s) ==
    IF \E i \in 1..Len(s) : s[i] = "."
    THEN CHOOSE i \in 1..Len(s) : s[i] = "." /\ \A j \in 1..(i - 1) : s[j] # "."
    ELSE Len(s) + 1
\* IFS='.' read -r major minor patch: patch takes the rest of the line
ReadFields(s) ==
    LET d1 == FirstDot(s)
        rest1 == SubSeq(s, d1 + 1, Len(s))
        d2 == FirstDot(rest1)
    IN  [major |-> SubSeq(s, 1, d1 - 1),
         minor |-> SubSeq(rest1, 1, d2 - 1),
         patch |-> SubSeq(rest1, d2 + 1, Len(rest1))]

\* an increment that carries into the minor number at ten
increment_version_carry(current_version) ==
    LET f == ReadFields(StripV(current_version))
        patch == DecimalValue(f.patch) + 1
    IN  IF patch = 10
        THEN <<"v">> \o f.major \o <<".">> \o ToDecimal(DecimalValue(f.minor) + 1)
             \o <<".", "0">>
        ELSE <<"v">> \o f.major \o <<".">> \o f.minor \o <<".">> \o ToDecimal(patch)
\* increment_version(current_version)
increment_version(current_version) ==
    LET f == ReadFields(StripV(current_version))
        patch == DecimalValue(f.patch) + 1
    IN  <<"v">> \o f.major \o <<".">> \o f.minor \o <<".">> \o ToDecimal(patch)

\* the version files a run can find: none, or what save_version wrote
VersionFiles ==
    {NoFile, File(<<"v", "1", ".", "0", ".", "0">>), File(<<"v", "1", ".", "0", ".", "9">>),
     File(<<"v", "2", ".", "1", "3", ".", "9", "9">>)}

InitDeploy ==
    /\ mockUsers = MockUsers
    /\ mockCourses = MockCourses
    /\ env \in Environments
    /\ clock = 0
    /\ req = NoRequest
    /\ res = NoResponse
    /\ steps = <<>>
    /\ call = NoCall
    /\ ret = NoRet
    /\ logger = NewLogger(env)
    /\ console = <<>>
    /\ versionFile \in VersionFiles
    /\ run = NoRun
    /\ inflight = NoneInFlight

ServerUnchanged ==
    UNCHANGED <<mockUsers, mockCourses, env, clock, req, res, steps, call, ret,
                logger, console, inflight>>

At(pc) == run.pc = pc
Goto(pc) == run' = [run EXCEPT !.pc = pc]
\* set -e / exit 1: the script ends with a non-zero exit code
Fail(step) ==
    run' = [run EXCEPT !.pc = "exited", !.exit_code = 1, !.failed_at = step]
\* a command that succeeds or fails
Command(step, next) ==
    /\ At(step)
    /\ \E ok \in BOOLEAN : IF ok THEN Goto(next) ELSE Fail(step)
    /\ UNCHANGED versionFile
    /\ ServerUnchanged

\* main "$@"
StartDeploy ==
    /\ At("idle")
    /\ run.runs < MaxRuns
    /\ run' = [pc |-> "check_prerequisites", runs |-> run.runs + 1,
               before |-> versionFile, current_version |-> <<>>,
               new_version |-> <<>>, exit_code |-> 0, failed_at |-> "none"]
    /\ UNCHANGED versionFile
    /\ ServerUnchanged

check_prerequisites == Command("check_prerequisites", "check_terraform_vars")
check_terraform_vars == Command("check_terraform_vars", "install_dependencies")
install_dependencies == Command("install_dependencies", "terraform_init")

\* deploy_infrastructure: terraform init, unless .terraform exists
TerraformInit ==
    /\ At("terraform_init")
    /\ \E initialized \in BOOLEAN : \E ok \in BOOLEAN :
          IF initialized \/ ok THEN Goto("get_version") ELSE Fail("terraform_init")
    /\ UNCHANGED versionFile
    /\ ServerUnchanged

\* local current_version=$(get_current_version)
\* local new_version=$(increment_version "$current_version")
GetVersion ==
    /\ At("get_version")
    /\ run' = [run EXCEPT !.pc = "terraform_plan",
                          !.current_version = get_current_version,
                          !.new_version = increment_version(get_current_version)]
    /\ UNCHANGED versionFile
    /\ ServerUnchanged

TerraformPlan == Command("terraform_plan", "terraform_apply")
TerraformApply == Command("terraform_apply", "save_version")

\* save_version "$new_version"
save_version ==
    /\ At("save_version")
    /\ versionFile' = File(run.new_version)
    /\ Goto("test_deployment")
    /\ ServerUnchanged

\* the terraform outputs are read in local x=$(...), which hides a failure;
\* test_deployment only warns when the health check fails
test_deployment ==
    /\ At("test_deployment")
    /\ Goto("exited")
    /\ UNCHANGED versionFile
    /\ ServerUnchanged

\* the script has ended; it can be run again
NextRun ==
    /\ At("exited")
    /\ Goto("idle")
    /\ UNCHANGED versionFile
    /\ ServerUnchanged

NextDeploy ==
    \/ StartDeploy
    \/ check_prerequisites
    \/ check_terraform_vars
    \/ install_dependencies
    \/ TerraformInit
    \/ GetVersion
    \/ TerraformPlan
    \/ TerraformApply
    \/ save_version
    \/ test_deployment
    \/ NextRun

SpecDeploy == InitDeploy /\ [][NextDeploy]_vars

-----------------------------------------------------------------------------
(* concurrent requests: one context per request in flight *)

\* the handler the router picks for r, run on r
Serve(r, now, newId) ==
    CASE r.handler = "getUsers" -> getUsers(r, now)
      [] r.handler = "getUserById" -> getUserById(r, now)
      [] r.handler = "createUser" -> createUser(r, now, newId)
      [] r.handler = "updateUser" -> updateUser(r, now)
      [] r.handler = "getCoursesRoute" -> getCoursesRoute(r, now)
      [] r.handler = "getCourseByIdRoute" -> getCourseByIdRoute(r, now)
      [] r.handler = "createCourseRoute" -> createCourseRoute(r, now, newId)
      [] r.handler = "updateCourseRoute" -> updateCourseRoute(r, now)
      [] OTHER -> notFound(r, now)

\* c.req.method and c.req.path
MethodOf(r) ==
    CASE r.handler \in {"createUser", "createCourseRoute"} -> "POST"
      [] r.handler \in {"updateUser", "updateCourseRoute"} -> "PUT"
      [] OTHER -> "GET"
PathOf(r) ==
    [under |-> CASE r.handler \in {"getUsers", "getUserById", "createUser",
                                   "updateUser"} -> "/api/users"
                 [] r.handler = "notFound" -> "/nowhere"
                 [] OTHER -> "/api/courses",
     id |-> r.id]

\* handlers that await the request body before they go on
AwaitsBody(r) ==
    r.handler \in {"createUser", "updateUser", "createCourseRoute", "updateCourseRoute"}

Slots == 1..MaxInFlight
NoEntry == [method |-> "", path |-> [under |-> "", id |-> Undefined], statusCode |-> 0]
NoContext ==
    [pc |-> "free", req |-> NoRequest, res |-> NoResponse, entry |-> NoEntry]

ValidUserBody == UserBody(Str(<<"a", "b">>), Str(<<"A", "@", "b", ".", "c">>))
ValidCourseBody ==
    CourseBody(ValidTitle, ValidDescription, ValidInstructor, ValidDuration, ValidLevel)
OneRequest(handler, id, page, body, contentLength) ==
    Request(handler, id, page, Undefined, Undefined, body, contentLength)
ConcurrentRequests ==
    {OneRequest("getUsers", Undefined, Str(<<"0">>), NoBody, Undefined),
     OneRequest("getUserById", Str(<<"1">>), Undefined, NoBody, Undefined),
     OneRequest("createUser", Undefined, Undefined, ValidUserBody, Undefined),
     OneRequest("updateUser", Str(<<"1">>), Undefined, ValidUserBody, Undefined),
     OneRequest("createCourseRoute", Undefined, Undefined, ValidCourseBody,
                Str(ToDecimal(10 * KiB * KiB + 1)))}

InitConcurrent ==
    /\ mockUsers = MockUsers
    /\ mockCourses = MockCourses
    /\ env \in Environments
    /\ clock = 0
    /\ req = NoRequest
    /\ res = NoResponse
    /\ steps = <<>>
    /\ call = NoCall
    /\ ret = NoRet
    /\ logger = NewLogger(env)
    /\ console = <<>>
    /\ versionFile = NoFile
    /\ run = NoRun
    /\ inflight = [s \in Slots |-> NoContext]

OthersUnchanged ==
    UNCHANGED <<mockUsers, mockCourses, env, clock, req, res, steps, call, ret,
                logger, console, versionFile, run>>
Set(s, ctx) == inflight' = [inflight EXCEPT ![s] = ctx]

\* a request arrives: the size middleware answers 413 or calls next(), and
\* the logging middleware awaits next()
Arrive(s) ==
    /\ inflight[s].pc = "free"
    /\ \E r \in ConcurrentRequests :
          IF TooLarge(r)
          THEN Set(s, [NoContext EXCEPT !.pc = "sent", !.req = r,
                          !.res = [status |-> requestTooLarge(r, clock).status,
                                   body |-> requestTooLarge(r, clock).body]])
          ELSE Set(s, [NoContext EXCEPT !.pc = IF AwaitsBody(r) THEN "body" ELSE "handler",
                                        !.req = r])
    /\ OthersUnchanged

\* await c.req.json() is settled
BodyRead(s) ==
    /\ inflight[s].pc = "body"
    /\ Set(s, [inflight[s] EXCEPT !.pc = "handler"])
    /\ OthersUnchanged

\* the handler runs from its last suspension point to its return
RunHandler(s) ==
    /\ inflight[s].pc = "handler"
    /\ \E newId \in GeneratedIds :
          LET out == Serve(inflight[s].req, clock, newId)
          IN  Set(s, [inflight[s] EXCEPT !.pc = "log",
                         !.res = [status |-> out.status, body |-> out.body]])
    /\ OthersUnchanged

\* a logging middleware that reports the request that arrived last
RequestLogEntryOfLast(ctxs, s) ==
    LET last == CHOOSE t \in Slots :
                    /\ ctxs[t].pc # "free"
                    /\ \A u \in Slots : ctxs[u].pc # "free" => u <= t
    IN  [method |-> MethodOf(ctxs[last].req), path |-> PathOf(ctxs[last].req),
         statusCode |-> ctxs[last].res.status]
\* logger.request(c.req.method, c.req.path, c.res.status, duration)
RequestLogEntry(ctxs, s) ==
    [method |-> MethodOf(ctxs[s].req), path |-> PathOf(ctxs[s].req),
     statusCode |-> ctxs[s].res.status]

\* await next() is settled in the logging middleware
LogRequestOf(s) ==
    /\ inflight[s].pc = "log"
    /\ Set(s, [inflight[s] EXCEPT !.pc = "sent",
                                  !.entry = RequestLogEntry(inflight, s)])
    /\ OthersUnchanged

\* the response is out and the context is dropped
Complete(s) ==
    /\ inflight[s].pc = "sent"
    /\ Set(s, NoContext)
    /\ OthersUnchanged

TickConcurrent ==
    /\ clock < MaxClock
    /\ clock' = clock + 1
    /\ UNCHANGED <<mockUsers, mockCourses, env, req, res, steps, call, ret,
                   logger, console, versionFile, run, inflight>>

NextConcurrent ==
    \/ TickConcurrent
    \/ \E s \in Slots : Arrive(s)
    \/ \E s \in Slots : BodyRead(s)
    \/ \E s \in Slots : RunHandler(s)
    \/ \E s \in Slots : LogRequestOf(s)
    \/ \E s \in Slots : Complete(s)

SpecConcurrent == InitConcurrent /\ [][NextConcurrent]_vars

-----------------------------------------------------------------------------
(* properties of the HTTP interface *)

Answered == ~Idle
Has(body, field) == field \in DOMAIN body

ByIdHandlers ==
    {"getUserById", "updateUser", "getCourseByIdRoute", "updateCourseRoute",
     "getCourseById", "updateCourse"}
UpdateHandlers == {"updateUser", "updateCourseRoute", "updateCourse"}
ResourceOf(handler) ==
    IF handler \in {"getUserById", "updateUser"} THEN mockUsers ELSE mockCourses

\* C1: every response, on every path (route success, schema rejection,
\* size limit, unknown route, uncaught error, health, root), is a JSON object
\* with a boolean success and a string timestamp; a failure also carries a
\* string error.
C1_EveryResponseIsEnvelope ==
    Answered =>
        /\ Has(res.body, "success")
        /\ res.body.success \in {JTrue, JFalse}
        /\ Has(res.body, "timestamp")
        /\ IsString(res.body.timestamp)
        /\ (res.body.success = JFalse =>
                Has(res.body, "error") /\ IsString(res.body.error))

\* the part of C1 the routes of index.ts do keep: whatever a handler, the size
\* middleware, notFound or onError answers themselves is an envelope
C1_HandlerAnswersAreEnvelopes ==
    (Answered /\ req.handler \notin {"health", "root"}
              /\ ~(Has(res.body, "error") /\ ~IsString(res.body.error))) =>
        /\ Has(res.body, "success")
        /\ res.body.success \in {JTrue, JFalse}
        /\ Has(res.body, "timestamp")
        /\ IsString(res.body.timestamp)
        /\ (res.body.success = JFalse => Has(res.body, "error"))

\* a by-id request with a digits-only id that no record has, and (for an
\* update) a body that passes validation: the empty object
UnknownIdRequest ==
    /\ Answered
    /\ req.handler \in ByIdHandlers
    /\ MatchesDigitsOnly(req.id.s)
    /\ FindIndex(ResourceOf(req.handler), ToNumber(req.id.s)) = 0
    /\ req.handler \in UpdateHandlers => req.body = BodyOfKind("object")

\* C2: every by-id handler (get user, get course, update user, update course)
\* answers a syntactically valid id that matches no record with 404 and a
\* failure envelope, never with 400 and never with success.
C2_UnknownIdIs404 ==
    UnknownIdRequest =>
        /\ res.status = 404
        /\ Has(res.body, "success")
        /\ res.body.success = JFalse

\* the part of C2 the read handlers keep
C2_GetUnknownIdIs404 ==
    (UnknownIdRequest /\ req.handler \notin UpdateHandlers) =>
        res.status = 404 /\ res.body.success = JFalse

\* C3: a by-id path parameter is accepted only if it consists of one or more
\* decimal digits; any other id is rejected with 400 before it is converted,
\* for users and for courses alike, so it can never select a record.
C3_NonDigitIdRejected ==
    (Answered /\ req.handler \in ByIdHandlers /\ ~MatchesDigitsOnly(req.id.s)) =>
        /\ res.status = 400
        /\ ~Has(res.body, "data")

\* the part of C3 the zod-validated course routes keep
C3_RouteNonDigitIdRejected ==
    (Answered /\ req.handler \in {"getCourseByIdRoute", "updateCourseRoute"}
              /\ ~MatchesDigitsOnly(req.id.s)) =>
        res.status = 400 /\ ~Has(res.body, "data")

CreateHandlers == {"createCourseRoute", "createCourse"}
CourseFields == {"title", "description", "instructor", "duration", "level"}

\* a string without leading or trailing whitespace, of a length in lo..hi
TrimmedWithin(v, lo, hi) ==
    /\ IsString(v) /\ Has(v, "s")
    /\ Trim(v.s) = v.s
    /\ Len(v.s) >= lo /\ Len(v.s) <= hi
\* the input apart from trimming
TrimOf(input, v) == IsString(input) /\ Has(input, "s") /\ v = Str(Trim(input.s))

\* C4: when create-course validation succeeds, the stored value has no leading
\* or trailing whitespace in title, description and instructor, their lengths
\* are within 3..100, 10..500 and 2..50, duration is an integer in 1..200,
\* level is one of the three levels, and each field equals the input apart
\* from trimming.
C4_CreatedCourseSatisfiesConstraints ==
    (Answered /\ req.handler \in CreateHandlers /\ res.status = 201) =>
        LET data == res.body.data
            body == req.body
        IN  /\ TrimmedWithin(data.title, TitleMin, TitleMax)
            /\ TrimmedWithin(data.description, DescriptionMin, DescriptionMax)
            /\ TrimmedWithin(data.instructor, InstructorMin, InstructorMax)
            /\ IsInteger(data.duration)
            /\ ~NumLt(data.duration, Num(DurationMin))
            /\ ~NumGt(data.duration, Num(DurationMax))
            /\ IsLevel(data.level)
            /\ TrimOf(body.title, data.title)
            /\ TrimOf(body.description, data.description)
            /\ TrimOf(body.instructor, data.instructor)
            /\ data.duration = body.duration
            /\ data.level = body.level

\* the part of C4 both create handlers keep: the stored strings are the
\* trimmed inputs and the level is one of the three levels
C4_CreatedCourseIsTrimmedInput ==
    (Answered /\ req.handler \in CreateHandlers /\ res.status = 201) =>
        LET data == res.body.data
            body == req.body
        IN  /\ TrimOf(body.title, data.title)
            /\ TrimOf(body.description, data.description)
            /\ TrimOf(body.instructor, data.instructor)
            /\ IsLevel(data.level)
            /\ data.duration = body.duration

\* a field value that violates its Create rule whether lengths are measured
\* before or after trimming, and one that satisfies it either way
StringOutside(v, lo, hi) ==
    \/ ~(IsString(v) /\ Has(v, "s"))
    \/ /\ (Len(v.s) < lo \/ Len(v.s) > hi)
       /\ (Len(Trim(v.s)) < lo \/ Len(Trim(v.s)) > hi)
StringInside(v, lo, hi) ==
    /\ IsString(v) /\ Has(v, "s")
    /\ Len(v.s) >= lo /\ Len(v.s) <= hi
    /\ Len(Trim(v.s)) >= lo /\ Len(Trim(v.s)) <= hi
IntegerInside(v, lo, hi) == IsInteger(v) /\ ~NumLt(v, Num(lo)) /\ ~NumGt(v, Num(hi))
NumberOutside(v, lo, hi) ==
    ~IsNumber(v) \/ IsNaN(v) \/ NumLt(v, Num(lo)) \/ NumGt(v, Num(hi))

Violates(field, v) ==
    CASE field = "title" -> StringOutside(v, TitleMin, TitleMax)
      [] field = "description" -> StringOutside(v, DescriptionMin, DescriptionMax)
      [] field = "instructor" -> StringOutside(v, InstructorMin, InstructorMax)
      [] field = "duration" -> NumberOutside(v, DurationMin, DurationMax)
      [] field = "level" -> ~IsLevel(v)
Satisfies(field, v) ==
    CASE field = "title" -> StringInside(v, TitleMin, TitleMax)
      [] field = "description" -> StringInside(v, DescriptionMin, DescriptionMax)
      [] field = "instructor" -> StringInside(v, InstructorMin, InstructorMax)
      [] field = "duration" -> IntegerInside(v, DurationMin, DurationMax)
      [] field = "level" -> IsLevel(v)

\* the fields a 400 answer names: the paths of a ZodError's issues, or the
\* field the single message is about
FieldOfMessage(text) ==
    CASE text = "Title must be between 3 and 100 characters" -> {"title"}
      [] text = "Description must be between 10 and 500 characters" -> {"description"}
      [] text = "Instructor name must be between 2 and 50 characters" -> {"instructor"}
      [] text = "Duration must be between 1 and 200 hours" -> {"duration"}
      [] text = "Level must be beginner, intermediate, or advanced" -> {"level"}
      [] OTHER -> {}
ReportedFields ==
    IF ~Has(res.body, "error") THEN {}
    ELSE IF res.body.error.t = "object"
    THEN {res.body.error.issues[k].path : k \in 1..Len(res.body.error.issues)}
    ELSE IF Has(res.body.error, "max") THEN {}
    ELSE FieldOfMessage(res.body.error.text)

SeveralViolations ==
    /\ Answered
    /\ req.handler \in CreateHandlers
    /\ ~TooLarge(req) /\ ~Throws(req)
    /\ req.body.kind = "object"
    /\ Cardinality({f \in CourseFields : Violates(f, req.body[f])}) >= 2

\* C5: a create-course request that violates constraints on several fields at
\* once is answered 400 with a field-tagged error for every violating field,
\* not only the first one; a field that satisfies its constraint gets none.
C5_EveryViolatingFieldReported ==
    SeveralViolations =>
        /\ res.status = 400
        /\ \A f \in CourseFields :
                /\ Violates(f, req.body[f]) => f \in ReportedFields
                /\ Satisfies(f, req.body[f]) => f \notin ReportedFields

\* the part of C5 the zod-validated route keeps
C5_RouteReportsEveryViolatingField ==
    (SeveralViolations /\ req.handler = "createCourseRoute") =>
        /\ res.status = 400
        /\ \A f \in CourseFields :
                /\ Violates(f, req.body[f]) => f \in ReportedFields
                /\ Satisfies(f, req.body[f]) => f \notin ReportedFields

Supplied(v) == v # Undefined
\* what Create stores for an accepted field value
Normalized(v) == IF IsString(v) /\ Has(v, "s") THEN Str(Trim(v.s)) ELSE v

UpdateCourseRequest ==
    /\ Answered
    /\ req.handler \in {"updateCourseRoute", "updateCourse"}
    /\ ~TooLarge(req) /\ ~Throws(req)
    /\ MatchesDigitsOnly(req.id.s)
    /\ req.body.kind = "object"

\* C6: update-course validation applies to each supplied field exactly the
\* rule Create applies to it and ignores absent fields: a supplied field that
\* Create would reject is rejected, a body whose supplied fields Create would
\* all accept (the empty body included) is accepted, and an accepted field is
\* normalized as Create normalizes it.
C6_UpdateAppliesCreateRules ==
    UpdateCourseRequest =>
        /\ (\E f \in CourseFields :
                Supplied(req.body[f]) /\ Violates(f, req.body[f]))
            => res.status = 400
        /\ (\A f \in CourseFields :
                Supplied(req.body[f]) => Satisfies(f, req.body[f]))
            => /\ res.status = 200
               /\ \A f \in CourseFields :
                    Supplied(req.body[f]) =>
                        res.body.data[f] = Normalized(req.body[f])

\* the part of C6 the zod-validated route keeps
C6_RouteUpdateAppliesCreateRules ==
    (UpdateCourseRequest /\ req.handler = "updateCourseRoute") =>
        /\ (\E f \in CourseFields :
                Supplied(req.body[f]) /\ Violates(f, req.body[f]))
            => res.status = 400
        /\ (\A f \in CourseFields :
                Supplied(req.body[f]) => Satisfies(f, req.body[f]))
            => /\ res.status = 200
               /\ \A f \in CourseFields :
                    Supplied(req.body[f]) =>
                        res.body.data[f] = Normalized(req.body[f])

ListHandlers == {"getUsers", "getCoursesRoute", "getCourses"}

\* a page that is below 1 or not numeric however it is converted, and a limit
\* that is outside 1..100 or not numeric however it is converted
NotPositive(a) == IsNaN(a) \/ NumLt(a, Num(1))
BadPage(v) ==
    /\ IsString(v) /\ v.s # <<>>
    /\ NotPositive(parseInt(v.s)) /\ NotPositive(ToNumber(v.s))
BadLimit(v) ==
    /\ IsString(v) /\ v.s # <<>>
    /\ NotPositive(parseInt(v.s)) \/ NumGt(parseInt(v.s), Num(MaxLimit))
    /\ NotPositive(ToNumber(v.s)) \/ NumGt(ToNumber(v.s), Num(MaxLimit))

\* position of the first occurrence of a step, 0 when it did not happen
StepAt(name) ==
    IF \E k \in 1..Len(steps) : steps[k] = name
    THEN CHOOSE k \in 1..Len(steps) :
            steps[k] = name /\ \A j \in 1..(k - 1) : steps[j] # name
    ELSE 0
Before(a, b) == StepAt(a) > 0 /\ StepAt(a) < StepAt(b)

\* C8: every list request passes both the query-schema shape check and
\* validatePagination before the list is read; a request whose page is below
\* 1 or not numeric, or whose limit is outside 1..100, is answered 400 and is
\* never paginated.
C8_ListRequestsValidatedTwice ==
    (Answered /\ req.handler \in ListHandlers) =>
        /\ StepAt("read") > 0 =>
                Before("zValidator", "read") /\ Before("validatePagination", "read")
        /\ (BadPage(req.page) \/ BadLimit(req.limit)) =>
                res.status = 400 /\ StepAt("slice") = 0

\* C8's second half on its own: out-of-policy page or limit is answered 400
C8_BadPaginationRejected ==
    (Answered /\ req.handler \in ListHandlers
              /\ (BadPage(req.page) \/ BadLimit(req.limit))) =>
        res.status = 400 /\ StepAt("slice") = 0

\* the part of C8 the handlers that call validatePagination keep
C8_ValidatePaginationHandlersReject ==
    (Answered /\ req.handler \in {"getUsers", "getCourses"}
              /\ (BadPage(req.page) \/ BadLimit(req.limit))) =>
        /\ res.status = 400 /\ StepAt("slice") = 0
        /\ StepAt("read") > 0 => Before("validatePagination", "read")

\* a page or limit parameter that is absent or a string of decimal digits
PlainNumber(v) == v = Undefined \/ (IsString(v) /\ MatchesDigitsOnly(v.s))
ValueOr(v, dflt) == IF v = Undefined THEN dflt ELSE DecimalValue(v.s)
RequestedPage == ValueOr(req.page, 1)
RequestedLimit == ValueOr(req.limit, 10)

ValidListRequest ==
    /\ Answered
    /\ req.handler \in ListHandlers
    /\ PlainNumber(req.page) /\ RequestedPage >= 1
    /\ PlainNumber(req.limit) /\ RequestedLimit >= 1 /\ RequestedLimit <= MaxLimit
    /\ req.level = Undefined \/ IsLevel(req.level)

\* the records a list request is about: all users, or the courses of the
\* requested level in their stored order
Listed ==
    IF req.handler = "getUsers" THEN mockUsers
    ELSE IF req.level = Undefined THEN mockCourses
    ELSE SelectSeq(mockCourses, LAMBDA course : course.level = req.level)

\* C9: for a valid page p and limit l over the n records that remain after
\* the optional level filter, the response holds exactly the records at
\* positions (p-1)*l .. min(p*l, n)-1 in order, each with the requested
\* level, and pagination {page: p, limit: l, total: n,
\* totalPages: ceil(n/l)}.
C9_PageHoldsItsSliceOfTheList ==
    ValidListRequest =>
        LET p == RequestedPage
            l == RequestedLimit
            n == Len(Listed)
            first == (p - 1) * l
            last == Min(p * l, n) - 1
            data == res.body.data
        IN  /\ res.status = 200
            /\ Len(data) = Max(0, last - first + 1)
            /\ \A k \in 1..Len(data) : data[k] = Listed[first + k]
            /\ \A k \in 1..Len(data) :
                    (req.handler # "getUsers" /\ req.level # Undefined) =>
                        data[k].level = req.level
            /\ res.body.pagination =
                    [page |-> Num(p), limit |-> Num(l), total |-> Num(n),
                     totalPages |-> Num((n + l - 1) \div l)]

\* C9 happens: page 2 of the three courses at limit 2 holds the third course
\* alone and reports two pages
C9_Witness ==
    /\ ValidListRequest
    /\ req.handler = "getCoursesRoute"
    /\ req.page = Str(<<"2">>) /\ req.limit = Str(<<"2">>)
    /\ res.body.data = <<mockCourses[3]>>
    /\ res.body.pagination.totalPages = Num(2)

\* the handlers that answer 201 with a new record
AllCreateHandlers == {"createUser", "createCourseRoute", "createCourse"}
ListOf(handler) ==
    IF handler \in {"createUser", "updateUser", "getUserById", "getUsers"}
    THEN mockUsers ELSE mockCourses
SuccessfulCreate ==
    /\ Answered
    /\ req.handler \in AllCreateHandlers
    /\ res.status = 201

\* C19: the record answered by a successful create (status 201, id X) is an
\* element of the process-wide resource list: looking X up in the list finds
\* that record, and the list is one longer than the seed list.
C19_CreatedRecordJoinsTheList ==
    SuccessfulCreate =>
        LET list == ListOf(req.handler)
            at == FindIndex(list, res.body.data.id)
        IN  /\ at # 0
            /\ list[at] = res.body.data
            /\ Len(list) = 1 + (IF req.handler = "createUser"
                                THEN Len(MockUsers) ELSE Len(MockCourses))

\* what the code does instead: whatever was requested, the lists stay the
\* seed lists
C19_ListsNeverChange ==
    mockUsers = MockUsers /\ mockCourses = MockCourses

SuccessfulUpdateOfStored ==
    /\ Answered
    /\ req.handler \in UpdateHandlers
    /\ res.status = 200
    /\ FindIndex(ListOf(req.handler), res.body.data.id) # 0

\* updated is a reading of the clock taken no later than now
UpdatedByNow == \E t \in 0..clock : res.body.data.updated = IsoString(t)

\* C20: an update of an existing record reports and keeps the record's
\* original created value, sets updated to the time of the update where the
\* record has one, and the stored record is the updated record.
C20_UpdateKeepsCreatedAndIsStored ==
    SuccessfulUpdateOfStored =>
        LET list == ListOf(req.handler)
            stored == list[FindIndex(list, res.body.data.id)]
            seed == IF req.handler = "updateUser" THEN MockUsers ELSE MockCourses
            original == seed[FindIndex(seed, res.body.data.id)]
        IN  /\ res.body.data.created = original.created
            /\ stored.created = original.created
            /\ Has(original, "updated") => UpdatedByNow
            /\ stored = res.body.data

\* the part of C20 the code keeps: created of a stored record never changes,
\* and an updated course is answered with the time of the update
C20_StoredCreatedNeverChanges ==
    /\ \A i \in 1..Len(mockUsers) : mockUsers[i].created = MockUsers[i].created
    /\ \A i \in 1..Len(mockCourses) : mockCourses[i].created = MockCourses[i].created
    /\ (SuccessfulUpdateOfStored /\ req.handler # "updateUser")
        => UpdatedByNow

PairwiseDistinctIds(list) ==
    \A i, j \in 1..Len(list) : list[i].id = list[j].id => i = j

\* C21: no two records of one resource kind share an id: the ids within each
\* resource list are pairwise distinct, and the id a successful create
\* assigns differs from the id of every record that already exists.
C21_IdsAreUnique ==
    /\ PairwiseDistinctIds(mockUsers)
    /\ PairwiseDistinctIds(mockCourses)
    /\ SuccessfulCreate =>
           \A i \in 1..Len(ListOf(req.handler)) :
               ListOf(req.handler)[i].id # res.body.data.id

\* the part of C21 the code keeps: the stored ids are pairwise distinct
C21_StoredIdsAreDistinct ==
    PairwiseDistinctIds(mockUsers) /\ PairwiseDistinctIds(mockCourses)

\* an exception was caught while the request was served: every catch block
\* and the error middleware log it with logger.error
Caught == \E i \in 1..Len(steps) : steps[i] = "logger.error"
GenericMessages ==
    {Text("Internal server error"),
     Text("Invalid JSON payload or internal server error")}

\* C22: in production the response to a request on which an exception was
\* thrown carries only a generic error message, never the message of the
\* exception, whichever handler or middleware caught it.
C22_GenericMessageInProduction ==
    (Answered /\ ~isDevelopment /\ Caught) => res.body.error \in GenericMessages

\* the part of C22 the code keeps: the error middleware and every catch block
\* other than those of the list handlers answer generically in production
C22_GenericOutsideListHandlers ==
    (Answered /\ ~isDevelopment /\ Caught /\ req.handler \notin {"getUsers", "getCourses"})
        => res.body.error \in GenericMessages

\* the validation that the handler of r applies to the path parameter, the
\* query or the parsed body of r fails (a body that does not parse is an
\* exception, not a validation failure)
FailsValidation(r) ==
    LET body == r.body
        parsed == body.kind \notin {"none", "malformed"}
    IN  CASE r.handler \in {"getUsers", "getCourses"} ->
                ~validatePagination(r.page, r.limit).ok
          [] r.handler \in {"getUserById", "getCourseById"} ->
                IsNaN(parseInt(r.id.s))
          [] r.handler = "getCoursesRoute" ->
                ~getCoursesQuerySchema(r.page, r.limit, r.level).success
          [] r.handler = "getCourseByIdRoute" ->
                ~getCourseByIdParamsSchema(r.id).success
          [] r.handler = "createCourseRoute" ->
                ~createCourseBodySchema(JsonTarget(body)).success
          [] r.handler = "updateCourseRoute" ->
                \/ ~updateCourseParamsSchema(r.id).success
                \/ ~updateCourseBodySchema(JsonTarget(body)).success
          [] r.handler = "createUser" ->
                /\ parsed
                /\ \/ body.kind # "object"
                   \/ ~Truthy(body.name) \/ ~Truthy(body.email)
                   \/ ~validateName(body.name) \/ ~validateEmail(body.email)
          [] r.handler = "updateUser" ->
                \/ IsNaN(parseInt(r.id.s))
                \/ /\ body.kind = "object"
                   /\ \/ Truthy(body.name) /\ ~validateName(body.name)
                      \/ Truthy(body.email) /\ ~validateEmail(body.email)
          [] r.handler = "createCourse" ->
                /\ parsed
                /\ body.kind # "object" \/ Truthy(validateCourseRequest(body))
          [] r.handler = "updateCourse" ->
                \/ IsNaN(parseInt(r.id.s))
                \/ /\ body.kind = "object"
                   /\ \/ /\ Truthy(body.title)
                         /\ \/ LengthBelow(body.title, TitleMin)
                            \/ LengthAbove(body.title, TitleMax)
                      \/ /\ Truthy(body.description)
                         /\ \/ LengthBelow(body.description, DescriptionMin)
                            \/ LengthAbove(body.description, DescriptionMax)
                      \/ Truthy(body.level) /\ ~IsLevel(body.level)
          [] OTHER -> FALSE
RejectedByValidation ==
    Answered /\ ~TooLarge(req) /\ ~Throws(req) /\ FailsValidation(req)
NoLaterStep ==
    \A i \in 1..Len(steps) :
        steps[i] \notin {"read", "slice", "generateId", "logger.info"}
FailureEnvelope ==
    /\ Has(res.body, "success") /\ res.body.success = JFalse
    /\ Has(res.body, "error") /\ IsString(res.body.error)
    /\ Has(res.body, "timestamp") /\ IsString(res.body.timestamp)

\* C23: when validation of the path parameter, the query or the body fails,
\* the answer is status 400 with a failure envelope and no later step happens
\* for the request: no read of the resource list, no generated id, no
\* success entry in the log (no handler ever changes a list).
C23_ValidationFailureShortCircuits ==
    RejectedByValidation =>
        /\ res.status = 400
        /\ FailureEnvelope
        /\ NoLaterStep
        /\ mockUsers = MockUsers /\ mockCourses = MockCourses

\* the part of C23 the code keeps: status 400, success false, an error, and no
\* later step
C23_ValidationFailureStopsTheRequest ==
    RejectedByValidation =>
        /\ res.status = 400
        /\ Has(res.body, "success") /\ res.body.success = JFalse
        /\ Has(res.body, "error")
        /\ NoLaterStep
        /\ mockUsers = MockUsers /\ mockCourses = MockCourses

\* C27: no request handler modifies a resource list: after any sequence of
\* list, get, create and update requests each list holds exactly its initial
\* records, with their initial field values, in their initial order.
C27_ListsKeepTheirInitialRecords ==
    /\ Len(mockUsers) = Len(MockUsers)
    /\ \A i \in 1..Len(MockUsers) :
          /\ DOMAIN mockUsers[i] = DOMAIN MockUsers[i]
          /\ \A f \in DOMAIN MockUsers[i] : mockUsers[i][f] = MockUsers[i][f]
    /\ Len(mockCourses) = Len(MockCourses)
    /\ \A i \in 1..Len(MockCourses) :
          /\ DOMAIN mockCourses[i] = DOMAIN MockCourses[i]
          /\ \A f \in DOMAIN MockCourses[i] : mockCourses[i][f] = MockCourses[i][f]

\* C27 happens: a user has just been created, and the list is as it was
C27_Witness ==
    /\ Answered
    /\ req.handler = "createUser"
    /\ res.status = 201
    /\ Len(mockUsers) = Len(MockUsers)

\* the configured maximum in bytes, and the declared size of the request
MaxSize == parseRequestSize(env.MAX_REQUEST_SIZE).bytes
DeclaredSize == DecimalValue(req.contentLength.s)
HasContentLength == req.contentLength # Undefined
Did(step) == \E i \in 1..Len(steps) : steps[i] = step

\* the request went through the middlewares of index.ts (/health and / are
\* served by the stand-alone entry point, which has no middleware)
ThroughIndexApp == Answered /\ req.handler \notin {"health", "root"}

C28_AtTheMaximum ==
    /\ ThroughIndexApp
    /\ HasContentLength
    /\ DeclaredSize = MaxSize
    /\ Did("logger.request")

\* a user was created or updated from a body that supplies name and email
UserWritten ==
    /\ Answered
    /\ req.handler \in {"createUser", "updateUser"}
    /\ res.status \in {200, 201}
    /\ req.body.kind = "object"
    /\ Truthy(req.body.name) /\ Truthy(req.body.email)

\* C29: the user record answered by a successful createUser or updateUser
\* with a supplied name and email has a name of 2 to 100 characters and a
\* lower-case email that matches the email pattern: the sanitized values
\* satisfy the rules checked on the raw input.
C29_ReturnedUserSatisfiesRules ==
    UserWritten =>
        /\ Len(res.body.data.name.s) >= NameMin
        /\ Len(res.body.data.name.s) <= NameMax
        /\ validateEmail(res.body.data.email)
        /\ ToLowerCase(res.body.data.email.s) = res.body.data.email.s

\* the part of C29 the code keeps: the name is at most 100 characters, and
\* the email is lower-case and matches the pattern
C29_ReturnedEmailSatisfiesRules ==
    UserWritten =>
        /\ Len(res.body.data.name.s) <= NameMax
        /\ validateEmail(res.body.data.email)
        /\ ToLowerCase(res.body.data.email.s) = res.body.data.email.s

-----------------------------------------------------------------------------
(* properties of the formatting utilities *)

Returned(fn) == call.fn = fn /\ call.done

\* the number a page or limit argument denotes: the default when it is
\* absent or empty, otherwise the numeric value of the whole string
Denoted(v, dflt) == ToNumber(IF Truthy(v) THEN v.s ELSE dflt)
AtLeastOne(a) == IsInteger(a) /\ ~NumLt(a, Num(1))

\* C7: validatePagination succeeds exactly when page (default 1) denotes a
\* positive integer and limit (default 10) denotes an integer in 1..100, and
\* then returns those two integers; it fails for "2.5", for "3abc" and
\* for "0".
C7_ValidatePaginationAcceptsExactlyIntegers ==
    Returned("validatePagination") =>
        LET p == Denoted(call.args[1], DefaultPage)
            l == Denoted(call.args[2], DefaultLimit)
            valid == AtLeastOne(p) /\ AtLeastOne(l) /\ ~NumGt(l, Num(MaxLimit))
        IN  /\ ret.ok <=> valid
            /\ ret.ok => ret.page = p /\ ret.limit = l

\* the part of C7 that holds: absent or digits-only arguments
C7_DigitsOnlyArguments ==
    (Returned("validatePagination")
        /\ PlainNumber(call.args[1]) /\ PlainNumber(call.args[2])) =>
        LET p == ValueOr(call.args[1], 1)
            l == ValueOr(call.args[2], 10)
        IN  /\ ret.ok <=> (p >= 1 /\ l >= 1 /\ l <= MaxLimit)
            /\ ret.ok => ret.page = Num(p) /\ ret.limit = Num(l)

\* C10: calculatePagination returns page, limit and total unchanged and
\* totalPages = ceil(total / limit) for total >= 0 and limit >= 1: 0 when
\* total is 0, and otherwise the integer tp with
\* (tp - 1) * limit < total <= tp * limit.
C10_TotalPagesIsCeiling ==
    Returned("calculatePagination") =>
        LET limit == call.args[2].n
            total == call.args[3].n
            tp == ret.totalPages
        IN  /\ ret.page = call.args[1]
            /\ ret.limit = call.args[2]
            /\ ret.total = call.args[3]
            /\ IsInteger(tp)
            /\ total = 0 => tp = Num(0)
            /\ total > 0 => (tp.n - 1) * limit < total /\ total <= tp.n * limit

\* C10 happens: 25 records at 10 per page are 3 pages
C10_Witness ==
    /\ Returned("calculatePagination")
    /\ call.args = <<Num(1), Num(10), Num(25)>>
    /\ ret.totalPages = Num(3)

\* the factor of a unit suffix in any letter case, 0 for anything else
UnitFactor(u) ==
    CASE u = <<>> -> 1
      [] Len(u) = 1 /\ u[1] \in {"b", "B"} -> 1
      [] Len(u) = 2 /\ u[1] \in {"k", "K"} /\ u[2] \in {"b", "B"} -> 1024
      [] Len(u) = 2 /\ u[1] \in {"m", "M"} /\ u[2] \in {"b", "B"} -> 1024 * 1024
      [] OTHER -> 0
\* the splits of s into a non-empty run of digits and a unit suffix
SizeSplits(s) ==
    {k \in 1..Len(s) :
        AllDigits(SubSeq(s, 1, k)) /\ UnitFactor(SubSeq(s, k + 1, Len(s))) > 0}

\* C11: parseRequestSize(s) returns n, n*1024 or n*1024*1024 when s is a
\* non-negative decimal integer n followed by nothing or "b", by "kb" or by
\* "mb" in any letter case, and fails for every other string: the empty
\* string, no digits, an unknown unit, a sign, a decimal point, white space.
C11_ParseRequestSizeIsDigitsTimesUnit ==
    Returned("parseRequestSize") =>
        LET s == call.args[1].s
        IN  IF SizeSplits(s) = {}
            THEN ~ret.ok
            ELSE /\ ret.ok
                 /\ \A k \in SizeSplits(s) :
                        ret.bytes = DecimalValue(SubSeq(s, 1, k))
                                    * UnitFactor(SubSeq(s, k + 1, Len(s)))

\* C11 happens: "5Kb" is 5120 bytes
C11_Witness ==
    /\ Returned("parseRequestSize")
    /\ call.args[1].s = <<"5", "K", "b">>
    /\ ret.ok /\ ret.bytes = 5120

\* C12: formatResponse(x) leaves x unmodified and returns a new object that
\* agrees with x on every key other than timestamp, so formatResponse applied
\* to its own result differs from that result in the timestamp at most.
C12_FormatResponseKeepsEveryOtherKey ==
    Returned("formatResponse") =>
        LET x == call.args[1]
            y == ret.once
            z == ret.twice
        IN  /\ ret.arg = x
            /\ DOMAIN y = DOMAIN x \cup {"timestamp"}
            /\ \A key \in DOMAIN x \ {"timestamp"} : y[key] = x[key]
            /\ Has(y.timestamp, "iso")
            /\ DOMAIN z = DOMAIN y
            /\ \A key \in DOMAIN y \ {"timestamp"} : z[key] = y[key]

\* C12 happens: a failure body stamped at two different times
C12_Witness ==
    /\ Returned("formatResponse")
    /\ call.args[1] = [success |-> JFalse, error |-> Text("e")]
    /\ ret.once.timestamp # ret.twice.timestamp
    /\ ret.twice.error = Text("e")

\* C24: for a request with an Origin header the origin callback returns the
\* origin (which the cors middleware echoes back) exactly when the origin is
\* an element of CORS_ORIGINS and the environment is development or
\* production, and null otherwise: so always for an empty list and in any
\* other environment; for a request without an Origin header it returns the
\* empty origin, never null.
C24_OriginAllowedIffConfigured ==
    Returned("corsOrigin") =>
        LET e == call.args[1]
            origin == call.args[2]
            configured ==
                /\ e.NODE_ENV \in {"development", "production"}
                /\ \E i \in 1..Len(e.CORS_ORIGINS) : e.CORS_ORIGINS[i] = origin
        IN  IF origin = ""
            THEN ret.returns = "origin" /\ ret.value = ""
            ELSE /\ configured => ret.returns = "origin" /\ ret.value = origin
                 /\ ~configured => ret.returns = "null"

\* C24 happens: a configured origin is echoed in production, and an origin
\* that only starts like it is not
C24_Witness ==
    /\ Returned("corsOrigin")
    /\ call.args[1] = [NODE_ENV |-> "production",
                       CORS_ORIGINS |-> <<"https://example.com">>]
    /\ \/ call.args[2] = "https://example.com" /\ ret.value = "https://example.com"
       \/ call.args[2] = "https://example.com.evil.io" /\ ret.returns = "null"

-----------------------------------------------------------------------------
(* properties of the logger *)

\* debug < info < warn < error
Rank(level) ==
    CASE level = "debug" -> 0 [] level = "info" -> 1
      [] level = "warn" -> 2 [] level = "error" -> 3

LoggingCalls ==
    {"debug", "info", "warn", "error", "request", "success", "failure", "performance"}
LoggedCall == call.done /\ call.fn \in LoggingCalls

\* the level a call counts as
CallLevel ==
    CASE call.fn \in {"debug", "info", "warn", "error"} -> call.fn
      [] call.fn = "success" -> "info"
      [] call.fn = "failure" -> "error"
      [] call.fn = "request" -> IF call.args.statusCode >= 400 THEN "warn" ELSE "info"
      [] call.fn = "performance" ->
            IF call.args.duration.n > 1000 THEN "warn" ELSE "info"
PassesThreshold == Rank(CallLevel) >= Rank(logger.logLevel)

\* C13: for every threshold t and level l among debug < info < warn < error, a
\* logging call at level l produces output if and only if l >= t, for the
\* direct operations and for the wrappers (success, request below 400 and
\* non-slow performance count as info, request from 400 and slow performance
\* as warn, failure as error).
C13_OutputIffAtOrAboveThreshold ==
    LoggedCall =>
        /\ console # <<>> <=> PassesThreshold
        /\ \A k \in 1..Len(console) : console[k].method = CallLevel

\* C13 happens: at threshold warn an info call wrote nothing
C13_Witness ==
    /\ LoggedCall
    /\ logger.logLevel = "warn"
    /\ call.fn = "success"
    /\ console = <<>>

\* the formatted text carries key with a value that is not undefined
Carries(text, key) ==
    \E k \in 1..(Len(text) - 1) :
        /\ text[k].kind = "key" /\ text[k].text = key
        /\ text[k + 1].kind \in {"value", "quoted"}
        /\ text[k + 1].text # "undefined"
\* the formatted text carries key with exactly this value
CarriesValue(text, key, valueText, num) ==
    /\ Cardinality({k \in 1..Len(text) : text[k].kind = "key" /\ text[k].text = key}) = 1
    /\ \E k \in 1..(Len(text) - 1) :
        /\ text[k].kind = "key" /\ text[k].text = key
        /\ text[k + 1].kind \in {"value", "quoted"}
        /\ text[k + 1].text = valueText /\ text[k + 1].num = num

\* C14: request(method, path, statusCode, durationMs) logs at warn when
\* statusCode >= 400 and at info otherwise, and the logged metadata always
\* carries method, path and statusCode, and the duration whenever a
\* durationMs value is supplied.
C14_RequestLogCarriesDuration ==
    (LoggedCall /\ call.fn = "request") =>
        \A k \in 1..Len(console) :
            /\ console[k].method = IF call.args.statusCode >= 400 THEN "warn" ELSE "info"
            /\ Carries(console[k].text, "method")
            /\ Carries(console[k].text, "path")
            /\ CarriesValue(console[k].text, "statusCode", "", call.args.statusCode)
            /\ call.args.duration # Undefined =>
                    CarriesValue(console[k].text, "duration", "ms", call.args.duration.n)

\* the part of C14 that holds: level, method, path, statusCode, and a
\* duration that is not 0
C14_RequestLogWithoutZeroDuration ==
    (LoggedCall /\ call.fn = "request") =>
        \A k \in 1..Len(console) :
            /\ console[k].method = IF call.args.statusCode >= 400 THEN "warn" ELSE "info"
            /\ Carries(console[k].text, "method")
            /\ Carries(console[k].text, "path")
            /\ CarriesValue(console[k].text, "statusCode", "", call.args.statusCode)
            /\ (call.args.duration # Undefined /\ call.args.duration # Num(0)) =>
                    CarriesValue(console[k].text, "duration", "ms", call.args.duration.n)

\* slow above 1000 ms, moderate above 100 ms, fast otherwise
DurationClass(d) ==
    IF d > 1000 THEN "slow" ELSE IF d > 100 /\ d <= 1000 THEN "moderate" ELSE "fast"

\* C15: performance(operation, durationMs, meta) classifies the duration as
\* slow exactly when durationMs > 1000, moderate exactly when
\* 100 < durationMs <= 1000 and fast exactly when durationMs <= 100, logs at
\* warn exactly when it is slow and at info otherwise, and the logged
\* metadata always contains that classification and the duration, whatever
\* keys the caller's meta contains.
C15_PerformanceClassifiesDuration ==
    (LoggedCall /\ call.fn = "performance") =>
        LET d == call.args.duration.n
            level == IF DurationClass(d) = "slow" THEN "warn" ELSE "info"
        IN  /\ console # <<>> <=> Rank(level) >= Rank(logger.logLevel)
            /\ \A k \in 1..Len(console) :
                /\ console[k].method = level
                /\ CarriesValue(console[k].text, "performance", DurationClass(d), 0)
                /\ CarriesValue(console[k].text, "duration", "ms", d)

\* C15 happens: 1000 ms is moderate and logged at info, although the caller's
\* meta said fast
C15_Witness ==
    /\ LoggedCall /\ call.fn = "performance"
    /\ call.args.duration = Num(1000)
    /\ Len(call.args.meta) = 3
    /\ Len(console) = 1 /\ console[1].method = "info"
    /\ CarriesValue(console[1].text, "performance", "moderate", 0)

ErrorLogged ==
    /\ LoggedCall /\ call.fn \in {"error", "failure"}
    /\ call.args.err.kind = "Error"
HasKey(text, key) == \E k \in 1..Len(text) : text[k].kind = "key" /\ text[k].text = key
HasText(text, chars) == \E k \in 1..Len(text) : text[k].text = chars

\* C16: outside development mode no output of error() or failure() contains
\* the stack trace of the passed error object nor a stack field, in either
\* rendering mode and for every value of prettyPrint and colors, also after
\* configure(); the error's name and message are included whenever an error
\* object is passed.
C16_NoStackOutsideDevelopment ==
    (ErrorLogged /\ env.NODE_ENV # "development") =>
        /\ console # <<>>
        /\ \A k \in 1..Len(console) :
            /\ ~HasText(console[k].text, call.args.err.stack)
            /\ ~HasKey(console[k].text, "stack")
            /\ CarriesValue(console[k].text, "name", call.args.err.name, 0)
            /\ CarriesValue(console[k].text, "message", call.args.err.message, 0)

\* the part of C16 that holds: the stack trace itself is never written
\* outside development mode, and compact output has no stack field
C16_NoStackTraceOutsideDevelopment ==
    (ErrorLogged /\ env.NODE_ENV # "development") =>
        /\ console # <<>>
        /\ \A k \in 1..Len(console) :
            /\ ~HasText(console[k].text, call.args.err.stack)
            /\ ~logger.config.prettyPrint => ~HasKey(console[k].text, "stack")
            /\ CarriesValue(console[k].text, "name", call.args.err.name, 0)
            /\ CarriesValue(console[k].text, "message", call.args.err.message, 0)

\* C17: every logging call that passes the threshold performs exactly one
\* write before it returns, debug and info entries to standard output, warn
\* and error entries to standard error; a suppressed call writes nothing to
\* either stream.
C17_OneWriteToTheStreamOfTheLevel ==
    LoggedCall =>
        /\ Len(console) = IF PassesThreshold THEN 1 ELSE 0
        /\ \A k \in 1..Len(console) :
            console[k].stream =
                IF CallLevel \in {"debug", "info"} THEN "stdout" ELSE "stderr"

\* C17 happens: a request answered 404 is written once, to standard error
C17_Witness ==
    /\ LoggedCall /\ call.fn = "request"
    /\ call.args.statusCode = 404
    /\ Len(console) = 1 /\ console[1].stream = "stderr"

AsFlag(b) == IF b THEN "true" ELSE "false"
Reconfigured == call'.fn = "configure"
Named(setting) == call'.args.partial[setting] # "unset"

\* C18: the log-level threshold and the settings that select pretty or
\* compact rendering and colour use can each be changed at runtime through
\* the logger's reconfigure operation; calls made afterwards obey the changed
\* value, and settings not named in the call keep their previous value.
C18_ReconfigureChangesEachSetting ==
    [][Reconfigured =>
        /\ IF Named("logLevel")
           THEN logger'.logLevel = call'.args.partial.logLevel
           ELSE logger'.logLevel = logger.logLevel
        /\ IF Named("prettyPrint")
           THEN AsFlag(logger'.config.prettyPrint) = call'.args.partial.prettyPrint
           ELSE logger'.config.prettyPrint = logger.config.prettyPrint
        /\ IF Named("colors")
           THEN AsFlag(logger'.config.colors) = call'.args.partial.colors
           ELSE logger'.config.colors = logger.config.colors]_vars

\* the part of C18 that holds: the two rendering flags are reconfigured, and
\* the threshold keeps its value
C18_ReconfigureChangesRenderingFlags ==
    [][Reconfigured =>
        /\ logger'.logLevel = logger.logLevel
        /\ IF Named("prettyPrint")
           THEN AsFlag(logger'.config.prettyPrint) = call'.args.partial.prettyPrint
           ELSE logger'.config.prettyPrint = logger.config.prettyPrint
        /\ IF Named("colors")
           THEN AsFlag(logger'.config.colors) = call'.args.partial.colors
           ELSE logger'.config.colors = logger.config.colors]_vars

\* and calls made afterwards render as the flags say: pretty output pads the
\* level and is coloured exactly when colours are on, compact output never is
C18_RenderingObeysFlags ==
    LoggedCall =>
        \A k \in 1..Len(console) :
            LET text == console[k].text
            IN  /\ text[2].text = IF logger.config.prettyPrint
                                  THEN PaddedLevel(CallLevel) ELSE UpperLevel(CallLevel)
                /\ (\E j \in 1..Len(text) : text[j].ansi # "")
                    <=> (logger.config.prettyPrint /\ logger.config.colors)

-----------------------------------------------------------------------------
(* properties of the deployment script *)

Ended == At("exited")
Succeeded == Ended /\ run.exit_code = 0
StoredBefore ==
    IF run.before.exists THEN run.before.text ELSE <<"v", "1", ".", "0", ".", "0">>
\* the three numbers of a version text vM.m.p
VersionNumbers(text) ==
    LET f == ReadFields(Tail(text))
    IN  <<DecimalValue(f.major), DecimalValue(f.minor), DecimalValue(f.patch)>>

\* C25: a successful deployment run stores the previously stored version
\* (v1.0.0 when there was no version file) with the patch number increased by
\* exactly one and major and minor unchanged; a run that fails while planning
\* or applying leaves the stored version unchanged.
C25_RunBumpsPatchOrKeepsVersion ==
    /\ Succeeded =>
          /\ versionFile.exists
          /\ Head(versionFile.text) = "v"
          /\ VersionNumbers(versionFile.text)
                = <<VersionNumbers(StoredBefore)[1], VersionNumbers(StoredBefore)[2],
                    VersionNumbers(StoredBefore)[3] + 1>>
    /\ (Ended /\ run.failed_at \in {"terraform_plan", "terraform_apply"}) =>
          /\ run.exit_code # 0
          /\ versionFile = run.before

\* C25 happens: the second run, started without a version file after a first
\* run that failed, succeeds and stores v1.0.1
C25_Witness ==
    /\ Succeeded
    /\ run.runs = 2
    /\ ~run.before.exists
    /\ versionFile.text = <<"v", "1", ".", "0", ".", "1">>

-----------------------------------------------------------------------------
(* properties of concurrent requests *)

\* what r is answered when it is the only request: the size middleware's
\* answer or the handler's, at some time and with some generated id
AnswersAlone(r) ==
    IF TooLarge(r)
    THEN {[status |-> requestTooLarge(r, t).status, body |-> requestTooLarge(r, t).body] :
            t \in 0..MaxClock}
    ELSE {[status |-> Serve(r, t, i).status, body |-> Serve(r, t, i).body] :
            t \in 0..MaxClock, i \in GeneratedIds}
SeveralInFlight == \A s \in Slots : inflight[s].pc # "free"

\* C26: whatever the interleaving of the requests in flight, each request is
\* answered with the status and body it gets when it is served alone (up to
\* the time and the generated id), and its request-log entry reports its own
\* method, path and status.
C26_RequestsDoNotInterfere ==
    \A s \in Slots :
        /\ inflight[s].pc \in {"log", "sent"} =>
                inflight[s].res \in AnswersAlone(inflight[s].req)
        /\ (inflight[s].pc = "sent" /\ ~TooLarge(inflight[s].req)) =>
                inflight[s].entry =
                    [method |-> MethodOf(inflight[s].req),
                     path |-> PathOf(inflight[s].req),
                     statusCode |-> inflight[s].res.status]

\* C26 happens: a create that arrived first is answered and logged after a
\* failing list request that arrived while the create awaited its body
C26_Witness ==
    /\ inflight[1].req.handler = "createUser" /\ inflight[1].pc = "sent"
    /\ inflight[1].res.status = 201 /\ inflight[1].entry.method = "POST"
    /\ inflight[2].req.handler = "getUsers" /\ inflight[2].pc = "sent"
    /\ inflight[2].res.status = 400 /\ inflight[2].entry.statusCode = 400

-----------------------------------------------------------------------------
(* properties of the logger's colours *)

IsEsc(token) == "esc" \in DOMAIN token
Coloured(out) == \E j \in 1..Len(out) : IsEsc(out[j])

\* C30: what the logger writes contains colour escape sequences only when
\* both the pretty-print flag and the colour flag are set, so never in compact
\* mode and never with the colour flag off, and every coloured fragment is
\* followed by the reset sequence.
C30_ColoursOnlyWhenPrettyAndClosed ==
    LoggedCall =>
        \A k \in 1..Len(console) :
            LET out == RenderedAll(console[k].text)
            IN  /\ Coloured(out) => (logger.config.prettyPrint /\ logger.config.colors)
                /\ \A j \in 1..Len(out) :
                      (IsEsc(out[j]) /\ out[j] # Esc("reset")) =>
                          /\ j + 2 <= Len(out)
                          /\ ~IsEsc(out[j + 1])
                          /\ out[j + 2] = Esc("reset")

\* C30 happens: a pretty, coloured line with a yellow metadata string
C30_Witness ==
    /\ LoggedCall
    /\ logger.config.prettyPrint /\ logger.config.colors
    /\ \E k \in 1..Len(console) :
          LET out == RenderedAll(console[k].text)
          IN  \E j \in 1..Len(out) : out[j] = Esc("yellow")

\* C30 happens as well: compact output with the colour flag on has no colour
C30_CompactWithColourFlag ==
    /\ LoggedCall
    /\ ~logger.config.prettyPrint /\ logger.config.colors
    /\ console # <<>>
    /\ ~Coloured(RenderedAll(console[1].text))

====
